---------------------------- MODULE Spec2Model ----------------------------
(***************************************************************************)
(* A model of repo_ingestor: the pattern matcher (utils.matches_any_pattern*)
(* ), the tree walker (utils.find_files), the configuration                *)
(* (config.Config) and the ingestion pipeline (core.RepositoryIngestor).   *)
(*                                                                         *)
(* Strings are sequences of one-character strings, so that prefix tests,   *)
(* splitting on "/" and glob matching are computed character by character  *)
(* as the Python code computes them.                                       *)
(***************************************************************************)
EXTENDS Integers, Sequences, FiniteSets, TLC

(***************************************************************************)
(* Bounds of the model.                                                    *)
(***************************************************************************)
\* longest path drawn from the small alphabet in the matcher specification
MaxPathLen == 5
\* most segments of a path built from whole segments
MaxSegs == 3
\* most files of a repository in the walker specification
MaxRepoFiles == 2

(***************************************************************************)
(* String primitives (Python str methods used by the code).                *)
(***************************************************************************)
\* s.startswith(p)
StartsWith(s, p) ==
    /\ Len(p) <= Len(s)
    /\ \A i \in 1..Len(p) : s[i] = p[i]

\* s.endswith(p)
EndsWith(s, p) ==
    /\ Len(p) <= Len(s)
    /\ \A i \in 1..Len(p) : s[Len(s) - Len(p) + i] = p[i]

\* s[n:]
DropFirst(s, n) == SubSeq(s, n + 1, Len(s))

\* s[:-n]
DropLast(s, n) == SubSeq(s, 1, Len(s) - n)

\* s.replace('\\', '/')
ReplaceBackslash(s) == [i \in 1..Len(s) |-> IF s[i] = "\\" THEN "/" ELSE s[i]]

\* is c one of the characters of s ("c in s")
HasChar(s, c) == \E i \in 1..Len(s) : s[i] = c

\* positions of the separator "/" in s
SlashPositions(s) == {i \in 1..Len(s) : s[i] = "/"}

\* s.split('/'): the segments between separators (empty segments kept)
RECURSIVE SplitFrom(_, _)
SplitFrom(s, start) ==
    LET later == {i \in SlashPositions(s) : i >= start}
    IN  IF later = {}
        THEN <<SubSeq(s, start, Len(s))>>
        ELSE LET k == CHOOSE i \in later : \A j \in later : i <= j
             IN  <<SubSeq(s, start, k - 1)>> \o SplitFrom(s, k + 1)

Split(s) == SplitFrom(s, 1)

\* '/'.join(parts)
RECURSIVE Join(_)
Join(parts) ==
    IF Len(parts) = 0 THEN <<>>
    ELSE IF Len(parts) = 1 THEN parts[1]
    ELSE parts[1] \o <<"/">> \o Join(Tail(parts))

(***************************************************************************)
(* fnmatch.fnmatch(name, pat) on a POSIX host: the whole name must match   *)
(* the pattern, "*" matches any run of characters ("/" included), "?"      *)
(* matches one character, every other character matches itself.  No        *)
(* pattern of the model contains "[".                                      *)
(***************************************************************************)
RECURSIVE GlobFrom(_, _, _, _)
GlobFrom(name, i, pat, j) ==
    IF j > Len(pat) THEN i > Len(name)
    ELSE IF pat[j] = "*"
         THEN IF j < Len(pat) /\ pat[j + 1] = "*"
              THEN GlobFrom(name, i, pat, j + 1)
              ELSE \E k \in i..(Len(name) + 1) : GlobFrom(name, k, pat, j + 1)
         ELSE /\ i <= Len(name)
              /\ (pat[j] = "?" \/ pat[j] = name[i])
              /\ GlobFrom(name, i + 1, pat, j + 1)

fnmatch(name, pat) == GlobFrom(name, 1, pat, 1)

(***************************************************************************)
(* utils.matches_any_pattern                                               *)
(***************************************************************************)
\* no_dot_path: the path with one leading "./" removed
NoDotPath(normalized_path) ==
    IF StartsWith(normalized_path, <<".", "/">>)
    THEN DropFirst(normalized_path, 2)
    ELSE normalized_path

\* a mutant of DirRule: the equality tests are forgotten
DirRule_PrefixOnly(normalized_path, no_dot_path, pattern) ==
    /\ EndsWith(pattern, <<"/">>)
    /\ \/ StartsWith(normalized_path, pattern)
       \/ StartsWith(no_dot_path, pattern)

\* directory patterns: the pattern is a directory prefix of the path
DirRule(normalized_path, no_dot_path, pattern) ==
    /\ EndsWith(pattern, <<"/">>)
    /\ LET dir_pattern == DropLast(pattern, 1)
       IN  \/ StartsWith(normalized_path, dir_pattern \o <<"/">>)
           \/ normalized_path = dir_pattern
           \/ StartsWith(no_dot_path, dir_pattern \o <<"/">>)
           \/ no_dot_path = dir_pattern

\* dot-prefixed patterns: also tried with the leading dot removed
DotRule(normalized_path, pattern) ==
    /\ StartsWith(pattern, <<".">>)
    /\ LET no_dot_pattern == DropFirst(pattern, 1)
       IN  \/ fnmatch(normalized_path, no_dot_pattern)
           \/ fnmatch(normalized_path, <<"*", "/">> \o no_dot_pattern)
           \/ fnmatch(normalized_path, no_dot_pattern \o <<"/", "*">>)

\* standard match of the whole path
StandardRule(normalized_path, pattern) == fnmatch(normalized_path, pattern)

\* '/'.join(path_parts[i:]) for every i: the path, and what follows each "/"
PartialPaths(normalized_path) ==
    {DropFirst(normalized_path, k) : k \in {0} \cup SlashPositions(normalized_path)}

\* the pattern tried against every suffix of the path's segments
PartialRule(normalized_path, pattern) ==
    \E partial_path \in PartialPaths(normalized_path) :
        fnmatch(partial_path, pattern)

\* the body of the loop over the patterns
MatchesPattern(normalized_path, no_dot_path, raw_pattern) ==
    LET pattern == ReplaceBackslash(raw_pattern)
    IN  \/ DirRule(normalized_path, no_dot_path, pattern)
        \/ DotRule(normalized_path, pattern)
        \/ StandardRule(normalized_path, pattern)
        \/ PartialRule(normalized_path, pattern)

matches_any_pattern(path, patterns) ==
    LET normalized_path == ReplaceBackslash(path)
        no_dot_path == NoDotPath(normalized_path)
    IN  \E pattern \in patterns :
            MatchesPattern(normalized_path, no_dot_path, pattern)


(***************************************************************************)
(* config.Config                                                           *)
(***************************************************************************)
\* does sub occur in s at position i
OccursAt(s, sub, i) ==
    /\ i + Len(sub) - 1 <= Len(s)
    /\ \A k \in 1..Len(sub) : s[i + k - 1] = sub[k]

\* "sub in s"
Contains(s, sub) == \E i \in 1..Len(s) : OccursAt(s, sub, i)

\* "**/"
GLOBSTAR_SLASH == <<"*", "*", "/">>

\* pattern.split('**/')[1] for a pattern that contains "**/": what lies
\* between its first "**/" and the next one (or the end)
AfterFirstGlobstar(pattern) ==
    LET hits == {i \in 1..Len(pattern) : OccursAt(pattern, GLOBSTAR_SLASH, i)}
        first == CHOOSE i \in hits : \A j \in hits : i <= j
        rest == DropFirst(pattern, first + 2)
        more == {i \in 1..Len(rest) : OccursAt(rest, GLOBSTAR_SLASH, i)}
    IN  IF more = {} THEN rest
        ELSE SubSeq(rest, 1, (CHOOSE i \in more : \A j \in more : i <= j) - 1)

\* the characters '.*?[]' that mark a file-like tail
FileLikeChars == {".", "*", "?", "[", "]"}

\* a mutant of NormalizeExcludePattern: the pattern is kept as given
NormalizeExcludePattern_Identity(pattern) == {pattern}

\* __post_init__: the normalized form(s) of one exclude pattern
NormalizeExcludePattern(pattern) ==
    IF EndsWith(pattern, <<"/">>) THEN {pattern}
    ELSE IF EndsWith(pattern, <<"/", "*", "*">>)
         THEN {DropLast(pattern, 3) \o <<"/">>}
    ELSE IF Contains(pattern, GLOBSTAR_SLASH) /\ ~EndsWith(pattern, <<"*">>)
         THEN IF ~\E c \in FileLikeChars : HasChar(AfterFirstGlobstar(pattern), c)
              THEN {pattern \o <<"/">>}
              ELSE {pattern}
    ELSE {pattern}

\* __post_init__ on the common exclude patterns
NormalizedExcludePatterns(common_exclude_patterns) ==
    UNION {NormalizeExcludePattern(ReplaceBackslash(p)) : p \in common_exclude_patterns}

\* max_file_size_kb: int = 1024
DefaultMaxFileSizeKb == 1024

\* max_depth: int = None; None is written -1, which no depth equals
None == -1

\* Config.common_include_patterns (default_factory)
DefaultCommonIncludePatterns == {
    <<"D","o","c","k","e","r","f","i","l","e">>,                                  \* Dockerfile
    <<"d","o","c","k","e","r","-","c","o","m","p","o","s","e",".","y","m","l">>,  \* docker-compose.yml
    <<".","g","i","t","i","g","n","o","r","e">>,                                  \* .gitignore
    <<"R","E","A","D","M","E",".","m","d">>,                                      \* README.md
    <<"L","I","C","E","N","S","E">>,                                              \* LICENSE
    <<".","e","n","v",".","e","x","a","m","p","l","e">>,                          \* .env.example
    <<"M","a","k","e","f","i","l","e">>,                                          \* Makefile
    <<"r","e","q","u","i","r","e","m","e","n","t","s",".","t","x","t">>,          \* requirements.txt
    <<"p","a","c","k","a","g","e",".","j","s","o","n">>,                          \* package.json
    <<"s","e","t","u","p",".","p","y">>,                                          \* setup.py
    <<"*",".","c","o","n","f","i","g">> }                                         \* *.config

\* Config.common_exclude_patterns (default_factory), before __post_init__
DefaultCommonExcludePatterns == {
    <<".","g","i","t","/">>,                                                                   \* .git/
    <<"_","_","p","y","c","a","c","h","e","_","_","/">>,                                       \* __pycache__/
    <<"*",".","p","y","c">>,                                                                   \* *.pyc
    <<"*",".","p","y","d">>,                                                                   \* *.pyd
    <<"*",".","p","y","o">>,                                                                   \* *.pyo
    <<"*",".","d","l","l">>,                                                                   \* *.dll
    <<"*",".","e","x","e">>,                                                                   \* *.exe
    <<"*",".","o","b","j">>,                                                                   \* *.obj
    <<"*",".","o">>,                                                                           \* *.o
    <<"*",".","a">>,                                                                           \* *.a
    <<"*",".","l","i","b">>,                                                                   \* *.lib
    <<"*",".","s","o">>,                                                                       \* *.so
    <<"*",".","d","y","l","i","b">>,                                                           \* *.dylib
    <<"*",".","n","c","b">>,                                                                   \* *.ncb
    <<"*",".","s","d","f">>,                                                                   \* *.sdf
    <<"*",".","s","u","o">>,                                                                   \* *.suo
    <<"*",".","p","d","b">>,                                                                   \* *.pdb
    <<"*",".","i","p","d","b">>,                                                               \* *.ipdb
    <<"*",".","p","g","c">>,                                                                   \* *.pgc
    <<"*",".","p","g","d">>,                                                                   \* *.pgd
    <<"*",".","r","s","p">>,                                                                   \* *.rsp
    <<"*",".","s","b","r">>,                                                                   \* *.sbr
    <<"*",".","t","l","b">>,                                                                   \* *.tlb
    <<"*",".","t","l","i">>,                                                                   \* *.tli
    <<"*",".","t","l","h">>,                                                                   \* *.tlh
    <<"*",".","t","m","p">>,                                                                   \* *.tmp
    <<"*",".","t","m","p","_","p","r","o","j">>,                                               \* *.tmp_proj
    <<"*",".","l","o","g">>,                                                                   \* *.log
    <<"*",".","v","s","p","s","c","c">>,                                                       \* *.vspscc
    <<"*",".","v","s","s","s","c","c">>,                                                       \* *.vssscc
    <<".","b","u","i","l","d","s">>,                                                           \* .builds
    <<"*",".","p","i","d","b">>,                                                               \* *.pidb
    <<"*",".","s","v","c","l","o","g">>,                                                       \* *.svclog
    <<"*",".","s","c","c">>,                                                                   \* *.scc
    <<"*",".","p","s","e","s","s">>,                                                           \* *.psess
    <<"*",".","v","s","p">>,                                                                   \* *.vsp
    <<"*",".","v","s","p","x">>,                                                               \* *.vspx
    <<"*","*","/","b","i","n","/">>,                                                           \* **/bin/
    <<"*","*","/","o","b","j","/">>,                                                           \* **/obj/
    <<"*","*","/","b","u","i","l","d","/">>,                                                   \* **/build/
    <<"*","*","/","d","i","s","t","/">>,                                                       \* **/dist/
    <<"*","*","/","n","o","d","e","_","m","o","d","u","l","e","s","/">>,                       \* **/node_modules/
    <<"*","*","/",".","v","e","n","v","/">>,                                                   \* **/.venv/
    <<"*","*","/","v","e","n","v","/">>,                                                       \* **/venv/
    <<"*","*","/","e","n","v","/">>,                                                           \* **/env/
    <<"*","*","/",".","e","n","v","/">>,                                                       \* **/.env/
    <<"*","*","/","E","N","V","/">>,                                                           \* **/ENV/
    <<"*","*","/",".","D","S","_","S","t","o","r","e">>,                                       \* **/.DS_Store
    <<"*","*","/","L","i","b","/","s","i","t","e","-","p","a","c","k","a","g","e","s","/">> }  \* **/Lib/site-packages/


\* languages["python"].extensions
PythonExtensions == {
    <<".","p","y">> }  \* .py

\* languages["python"].include_patterns
PythonIncludePatterns == {
    <<"p","y","p","r","o","j","e","c","t",".","t","o","m","l">>,               \* pyproject.toml
    <<"s","e","t","u","p",".","c","f","g">>,                                   \* setup.cfg
    <<"p","y","t","e","s","t",".","i","n","i">>,                               \* pytest.ini
    <<"t","o","x",".","i","n","i">>,                                           \* tox.ini
    <<"r","e","q","u","i","r","e","m","e","n","t","s","*",".","t","x","t">> }  \* requirements*.txt

\* languages["python"].exclude_patterns
PythonExcludePatterns == {}

\* languages["python"].config_files
PythonConfigFiles == {
    <<"p","y","p","r","o","j","e","c","t",".","t","o","m","l">>,           \* pyproject.toml
    <<"s","e","t","u","p",".","p","y">>,                                   \* setup.py
    <<"s","e","t","u","p",".","c","f","g">>,                               \* setup.cfg
    <<"r","e","q","u","i","r","e","m","e","n","t","s",".","t","x","t">> }  \* requirements.txt

\* self.languages["python"] = LanguageConfig(...)
PythonLanguageConfig == [
    name |-> <<"P","y","t","h","o","n">>,  \* Python
    extensions |-> PythonExtensions,
    include_patterns |-> PythonIncludePatterns,
    exclude_patterns |-> PythonExcludePatterns,
    config_files |-> PythonConfigFiles ]

\* languages["csharp"].extensions
CSharpExtensions == {
    <<".","c","s">>,                  \* .cs
    <<".","c","s","p","r","o","j">>,  \* .csproj
    <<".","s","l","n">> }             \* .sln

\* languages["csharp"].include_patterns
CSharpIncludePatterns == {
    <<"*",".","c","o","n","f","i","g">>,                              \* *.config
    <<"A","p","p",".","c","o","n","f","i","g">>,                      \* App.config
    <<"W","e","b",".","c","o","n","f","i","g">>,                      \* Web.config
    <<"p","a","c","k","a","g","e","s",".","c","o","n","f","i","g">>,  \* packages.config
    <<"*",".","p","r","o","p","s">>,                                  \* *.props
    <<"*",".","t","a","r","g","e","t","s">> }                         \* *.targets

\* languages["csharp"].exclude_patterns
CSharpExcludePatterns == {}

\* languages["csharp"].config_files
CSharpConfigFiles == {
    <<"*",".","c","s","p","r","o","j">>,                              \* *.csproj
    <<"*",".","s","l","n">>,                                          \* *.sln
    <<"p","a","c","k","a","g","e","s",".","c","o","n","f","i","g">>,  \* packages.config
    <<"N","u","G","e","t",".","c","o","n","f","i","g">> }             \* NuGet.config

\* self.languages["csharp"] = LanguageConfig(...)
CSharpLanguageConfig == [
    name |-> <<"C","#">>,  \* C#
    extensions |-> CSharpExtensions,
    include_patterns |-> CSharpIncludePatterns,
    exclude_patterns |-> CSharpExcludePatterns,
    config_files |-> CSharpConfigFiles ]

\* languages["react"].extensions
ReactExtensions == {
    <<".","j","s","x">>,  \* .jsx
    <<".","t","s","x">>,  \* .tsx
    <<".","j","s">>,      \* .js
    <<".","t","s">> }     \* .ts

\* languages["react"].include_patterns
ReactIncludePatterns == {
    <<"p","a","c","k","a","g","e",".","j","s","o","n">>,                      \* package.json
    <<"t","s","c","o","n","f","i","g",".","j","s","o","n">>,                  \* tsconfig.json
    <<".","b","a","b","e","l","r","c">>,                                      \* .babelrc
    <<".","e","s","l","i","n","t","r","c","*">>,                              \* .eslintrc*
    <<"w","e","b","p","a","c","k",".","c","o","n","f","i","g",".","j","s">>,  \* webpack.config.js
    <<"n","e","x","t",".","c","o","n","f","i","g",".","j","s">>,              \* next.config.js
    <<"v","i","t","e",".","c","o","n","f","i","g",".","j","s">> }             \* vite.config.js

\* languages["react"].exclude_patterns
ReactExcludePatterns == {
    <<"*",".","d",".","t","s">> }  \* *.d.ts

\* languages["react"].config_files
ReactConfigFiles == {
    <<"p","a","c","k","a","g","e",".","j","s","o","n">>,                       \* package.json
    <<"t","s","c","o","n","f","i","g",".","j","s","o","n">>,                   \* tsconfig.json
    <<".","b","a","b","e","l","r","c">>,                                       \* .babelrc
    <<"w","e","b","p","a","c","k",".","c","o","n","f","i","g",".","j","s">> }  \* webpack.config.js

\* self.languages["react"] = LanguageConfig(...)
ReactLanguageConfig == [
    name |-> <<"R","e","a","c","t">>,  \* React
    extensions |-> ReactExtensions,
    include_patterns |-> ReactIncludePatterns,
    exclude_patterns |-> ReactExcludePatterns,
    config_files |-> ReactConfigFiles ]

\* languages["yaml"].extensions
YamlExtensions == {
    <<".","y","m","l">>,       \* .yml
    <<".","y","a","m","l">> }  \* .yaml

\* languages["yaml"].include_patterns
YamlIncludePatterns == {
    <<"d","o","c","k","e","r","-","c","o","m","p","o","s","e","*",".","y","m","l">>,                      \* docker-compose*.yml
    <<"d","o","c","k","e","r","-","c","o","m","p","o","s","e","*",".","y","a","m","l">>,                  \* docker-compose*.yaml
    <<".","g","i","t","h","u","b","/","w","o","r","k","f","l","o","w","s","/","*",".","y","m","l">>,      \* .github/workflows/*.yml
    <<".","g","i","t","h","u","b","/","w","o","r","k","f","l","o","w","s","/","*",".","y","a","m","l">>,  \* .github/workflows/*.yaml
    <<"k","u","b","e","r","n","e","t","e","s","/","*",".","y","m","l">>,                                  \* kubernetes/*.yml
    <<"k","u","b","e","r","n","e","t","e","s","/","*",".","y","a","m","l">>,                              \* kubernetes/*.yaml
    <<"k","8","s","/","*",".","y","m","l">>,                                                              \* k8s/*.yml
    <<"k","8","s","/","*",".","y","a","m","l">>,                                                          \* k8s/*.yaml
    <<"h","e","l","m","/","*","*","/","*",".","y","m","l">>,                                              \* helm/**/*.yml
    <<"h","e","l","m","/","*","*","/","*",".","y","a","m","l">>,                                          \* helm/**/*.yaml
    <<".","g","i","t","l","a","b","-","c","i",".","y","m","l">>,                                          \* .gitlab-ci.yml
    <<"c","l","o","u","d","b","u","i","l","d",".","y","a","m","l">>,                                      \* cloudbuild.yaml
    <<"a","p","p","v","e","y","o","r",".","y","m","l">>,                                                  \* appveyor.yml
    <<"c","i","r","c","l","e",".","y","m","l">>,                                                          \* circle.yml
    <<"t","r","a","v","i","s",".","y","m","l">>,                                                          \* travis.yml
    <<".","t","r","a","v","i","s",".","y","m","l">>,                                                      \* .travis.yml
    <<"*","*","/","C","h","a","r","t",".","y","a","m","l">>,                                              \* **/Chart.yaml
    <<"*","*","/","v","a","l","u","e","s",".","y","a","m","l">>,                                          \* **/values.yaml
    <<"a","n","s","i","b","l","e","/","*",".","y","m","l">>,                                              \* ansible/*.yml
    <<"a","n","s","i","b","l","e","/","*",".","y","a","m","l">>,                                          \* ansible/*.yaml
    <<"*",".","y","a","m","l">>,                                                                          \* *.yaml
    <<"*",".","y","m","l">> }                                                                             \* *.yml

\* languages["yaml"].exclude_patterns
YamlExcludePatterns == {}

\* languages["yaml"].config_files
YamlConfigFiles == {
    <<"d","o","c","k","e","r","-","c","o","m","p","o","s","e",".","y","m","l">>,                       \* docker-compose.yml
    <<"d","o","c","k","e","r","-","c","o","m","p","o","s","e",".","y","a","m","l">>,                   \* docker-compose.yaml
    <<".","g","i","t","h","u","b","/","w","o","r","k","f","l","o","w","s","/","*",".","y","m","l">> }  \* .github/workflows/*.yml

\* self.languages["yaml"] = LanguageConfig(...)
YamlLanguageConfig == [
    name |-> <<"Y","A","M","L">>,  \* YAML
    extensions |-> YamlExtensions,
    include_patterns |-> YamlIncludePatterns,
    exclude_patterns |-> YamlExcludePatterns,
    config_files |-> YamlConfigFiles ]

(***************************************************************************)
(* The repository on disk: a set of files, each with its path relative to  *)
(* the root, its size in bytes and its content as the sequence of chunks   *)
(* the text decoder reads ("utf8": the chunk decodes, "bad": it does not). *)
(* Directories are the proper prefixes of the files' paths.                *)
(***************************************************************************)
\* the segments of a file's relative path
FileSegs(f) == Split(f.path)

\* is the segment sequence d a proper prefix of the segment sequence s
IsProperPrefix(d, s) ==
    /\ Len(d) < Len(s)
    /\ \A i \in 1..Len(d) : s[i] = d[i]

\* os.walk: the names of the subdirectories of dirpath
Dirnames(repo, dirpath) ==
    {FileSegs(f)[Len(dirpath) + 1] :
        f \in {g \in repo : /\ IsProperPrefix(dirpath, FileSegs(g))
                            /\ Len(FileSegs(g)) > Len(dirpath) + 1}}

\* os.walk: the files directly in dirpath
Filenames(repo, dirpath) ==
    {f \in repo : /\ IsProperPrefix(dirpath, FileSegs(f))
                  /\ Len(FileSegs(f)) = Len(dirpath) + 1}

\* a listing in the order the filesystem gives it (the model fixes one)
RECURSIVE Listing(_)
Listing(S) ==
    IF S = {} THEN <<>>
    ELSE LET x == CHOOSE y \in S : TRUE
         IN  <<x>> \o Listing(S \ {x})

(***************************************************************************)
(* utils.is_binary_file, utils.get_file_content                            *)
(***************************************************************************)
\* a mutant of is_binary_file: no file is reported binary
is_binary_file_Never(f) == FALSE

\* f.read(1024) decodes the leading chunk only; UnicodeDecodeError -> True
is_binary_file(f) == Len(f.bytes) >= 1 /\ f.bytes[1] = "bad"

\* the whole file decodes as UTF-8
DecodesFully(f) == \A i \in 1..Len(f.bytes) : f.bytes[i] = "utf8"

\* f.read(), or on UnicodeDecodeError the bytes decoded with errors='replace'
get_file_content(f) ==
    IF DecodesFully(f) THEN [text |-> f.bytes, replaced |-> FALSE]
    ELSE [text |-> [i \in 1..Len(f.bytes) |-> "utf8"], replaced |-> TRUE]

(***************************************************************************)
(* utils.find_files                                                        *)
(***************************************************************************)
\* os.path.relpath(dirpath, root_dir); dirpath is a sequence of segments
RelDirpath(dirpath) == IF dirpath = <<>> THEN <<".">> ELSE Join(dirpath)

\* current_depth
CurrentDepth(dirpath) ==
    IF RelDirpath(dirpath) = <<".">> THEN 0 ELSE Len(Split(RelDirpath(dirpath)))

\* a mutant of DirnamesWithinDepth: the directories at the limit are still
\* descended into
DirnamesWithinDepth_OneDeeper(repo, dirpath, max_depth) ==
    IF max_depth # None /\ CurrentDepth(dirpath) > max_depth
    THEN {}
    ELSE Dirnames(repo, dirpath)

\* dirnames after "if current_depth >= max_depth: dirnames.clear()"
DirnamesWithinDepth(repo, dirpath, max_depth) ==
    IF max_depth # None /\ CurrentDepth(dirpath) >= max_depth
    THEN {}
    ELSE Dirnames(repo, dirpath)

\* rel_subdir = os.path.join(rel_dirpath, dirnames[i])
RelSubdir(dirpath, dirname) ==
    LET joined == RelDirpath(dirpath) \o <<"/">> \o dirname
    IN  IF joined = <<".">> THEN dirname ELSE joined

\* the subdirectories the while loop pops from dirnames
PrunedDirnames(repo, dirpath, exclude_patterns, max_depth) ==
    {d \in DirnamesWithinDepth(repo, dirpath, max_depth) :
        matches_any_pattern(RelSubdir(dirpath, d), exclude_patterns)}

\* a mutant of KeptDirnames: the excluded directories are not popped
KeptDirnames_All(repo, dirpath, exclude_patterns, max_depth) == DirnamesWithinDepth(repo, dirpath, max_depth)

\* the subdirectories left in dirnames, which os.walk recurses into
KeptDirnames(repo, dirpath, exclude_patterns, max_depth) ==
    DirnamesWithinDepth(repo, dirpath, max_depth)
        \ PrunedDirnames(repo, dirpath, exclude_patterns, max_depth)

\* a mutant of FileSelected: the include test comes before the exclude test
FileSelected_IncludeFirst(f, include_patterns, exclude_patterns, max_size_kb) ==
    \/ matches_any_pattern(f.path, include_patterns) /\ ~is_binary_file(f)
    \/ /\ ~matches_any_pattern(f.path, exclude_patterns)
       /\ ~(f.size > max_size_kb * 1024)
       /\ matches_any_pattern(f.path, include_patterns)
       /\ ~is_binary_file(f)

\* the body of "for filename in filenames": is the file appended to result
FileSelected(f, include_patterns, exclude_patterns, max_size_kb) ==
    /\ ~matches_any_pattern(f.path, exclude_patterns)
    /\ ~(f.size > max_size_kb * 1024)
    /\ matches_any_pattern(f.path, include_patterns)
    /\ ~is_binary_file(f)

\* the files of one directory appended to result, in listing order
SelectedFiles(repo, dirpath, include_patterns, exclude_patterns, max_size_kb) ==
    Listing({f \in Filenames(repo, dirpath) :
        FileSelected(f, include_patterns, exclude_patterns, max_size_kb)})

\* the directories os.walk visits next, before those already pending
ChildDirs(repo, dirpath, exclude_patterns, max_depth) ==
    LET names == Listing(KeptDirnames(repo, dirpath, exclude_patterns, max_depth))
    IN  [i \in 1..Len(names) |-> dirpath \o <<names[i]>>]

\* the walk from a stack of pending directories to its end
RECURSIVE WalkFrom(_, _, _, _, _, _, _)
WalkFrom(repo, pending, result, include_patterns, exclude_patterns, max_size_kb, max_depth) ==
    IF pending = <<>> THEN result
    ELSE LET dirpath == Head(pending)
         IN  WalkFrom(repo,
                 ChildDirs(repo, dirpath, exclude_patterns, max_depth)
                     \o Tail(pending),
                 result \o SelectedFiles(repo, dirpath, include_patterns,
                                         exclude_patterns, max_size_kb),
                 include_patterns, exclude_patterns, max_size_kb, max_depth)

\* find_files: the files found, in walk order
find_files(repo, include_patterns, exclude_patterns, max_size_kb, max_depth) ==
    WalkFrom(repo, <<<<>>>>, <<>>, include_patterns, exclude_patterns,
             max_size_kb, max_depth)

(***************************************************************************)
(* I/O errors in utils.find_files.  A file record may carry io_error:      *)
(* "stat" for an entry os.walk lists but Path.stat() cannot resolve (a     *)
(* dangling symbolic link), "open" for a file open() refuses.              *)
(***************************************************************************)
\* file_path.stat() raises OSError
StatFails(f) == "io_error" \in DOMAIN f /\ f.io_error = "stat"

\* open(file_path) raises OSError
OpenFails(f) == "io_error" \in DOMAIN f /\ f.io_error = "open"

\* os.walk reaches the directory: none of its ancestors was popped from
\* dirnames or cut off by max_depth
RECURSIVE DirVisited(_, _, _, _)
DirVisited(repo, dirpath, exclude_patterns, max_depth) ==
    \/ dirpath = <<>>
    \/ LET parent == SubSeq(dirpath, 1, Len(dirpath) - 1)
       IN  /\ dirpath[Len(dirpath)] \in KeptDirnames(repo, parent, exclude_patterns, max_depth)
           /\ DirVisited(repo, parent, exclude_patterns, max_depth)

\* the file loop raises on f: neither file_path.stat() (line 124) nor
\* is_binary_file's open (line 129) is inside a try that catches OSError
FileRaises(f, include_patterns, exclude_patterns, max_size_kb) ==
    /\ ~matches_any_pattern(f.path, exclude_patterns)
    /\ \/ StatFails(f)
       \/ /\ OpenFails(f)
          /\ ~(f.size > max_size_kb * 1024)
          /\ matches_any_pattern(f.path, include_patterns)

\* find_files raises instead of returning
find_files_raises(repo, include_patterns, exclude_patterns, max_size_kb, max_depth) ==
    \E f \in repo :
        /\ DirVisited(repo, SubSeq(FileSegs(f), 1, Len(FileSegs(f)) - 1), exclude_patterns, max_depth)
        /\ FileRaises(f, include_patterns, exclude_patterns, max_size_kb)

(***************************************************************************)
(* String literals.                                                        *)
(***************************************************************************)
\* "foo"
FOO == <<"f","o","o">>
\* ".venv"
DOTVENV == <<".","v","e","n","v">>
\* "bar"
BAR == <<"b","a","r">>
\* "node_modules"
NODE_MODULES == <<"n","o","d","e","_","m","o","d","u","l","e","s">>
\* "c.js"
CJS == <<"c",".","j","s">>
\* "foo/"
FOO_SLASH == <<"f","o","o","/">>
\* ".venv/"
DOTVENV_SLASH == <<".","v","e","n","v","/">>
\* "node_modules/"
NODE_MODULES_SLASH == <<"n","o","d","e","_","m","o","d","u","l","e","s","/">>
\* "*.js"
STAR_JS == <<"*",".","j","s">>
\* "*.py"
STAR_PY == <<"*",".","p","y">>
\* "*"
STAR == <<"*">>
\* "bin"
BIN == <<"b","i","n">>
\* "obj"
OBJ == <<"o","b","j">>
\* "build"
BUILD == <<"b","u","i","l","d">>
\* "dist"
DIST == <<"d","i","s","t">>
\* "venv"
VENV == <<"v","e","n","v">>

(***************************************************************************)
(* Files the repositories of the walker specification are made of.         *)
(***************************************************************************)
\* c.js: a text file at the top level
File_c_js == [
    path |-> <<"c",".","j","s">>,
    size |-> 100,
    bytes |-> <<"utf8">> ]

\* node_modules/c.js: a file of a top-level node_modules
File_node_modules_c_js == [
    path |-> <<"n","o","d","e","_","m","o","d","u","l","e","s","/","c",".","j","s">>,
    size |-> 100,
    bytes |-> <<"utf8">> ]

\* a/b/node_modules/c.js: a file of a nested node_modules
File_a_b_node_modules_c_js == [
    path |-> <<"a","/","b","/","n","o","d","e","_","m","o","d","u","l","e","s","/","c",".","j","s">>,
    size |-> 100,
    bytes |-> <<"utf8">> ]

\* .builds/x.py: a file of the IDE directory .builds
File_builds_x_py == [
    path |-> <<".","b","u","i","l","d","s","/","x",".","p","y">>,
    size |-> 100,
    bytes |-> <<"utf8">> ]

\* debug.log: a log file
File_debug_log == [
    path |-> <<"d","e","b","u","g",".","l","o","g">>,
    size |-> 100,
    bytes |-> <<"utf8">> ]

\* bin/x.py: a file of a build directory
File_bin_x_py == [
    path |-> <<"b","i","n","/","x",".","p","y">>,
    size |-> 100,
    bytes |-> <<"utf8">> ]

\* foo/.venv/x.py: a file of a nested virtual environment
File_foo_venv_x_py == [
    path |-> <<"f","o","o","/",".","v","e","n","v","/","x",".","p","y">>,
    size |-> 100,
    bytes |-> <<"utf8">> ]

\* big.py: one byte over the default size limit
File_big_py == [
    path |-> <<"b","i","g",".","p","y">>,
    size |-> DefaultMaxFileSizeKb * 1024 + 1,
    bytes |-> <<"utf8", "utf8">> ]

\* blob.py: its leading chunk does not decode
File_blob_py == [
    path |-> <<"b","l","o","b",".","p","y">>,
    size |-> 100,
    bytes |-> <<"bad", "utf8">> ]

\* tail.py: its leading chunk decodes, a later one does not
File_tail_py == [
    path |-> <<"t","a","i","l",".","p","y">>,
    size |-> 20000,
    bytes |-> <<"utf8", "bad">> ]

WalkFiles == {
    File_c_js,
    File_node_modules_c_js,
    File_a_b_node_modules_c_js,
    File_builds_x_py,
    File_debug_log,
    File_bin_x_py,
    File_foo_venv_x_py,
    File_big_py,
    File_blob_py,
    File_tail_py }

\* every repository of at most MaxRepoFiles of those files
WalkRepos == {r \in SUBSET WalkFiles : Cardinality(r) <= MaxRepoFiles}

\* the include pattern sets find_files is called with
WalkIncludeSets == {
    {STAR_JS, STAR_PY},
    {STAR} }

\* the exclude pattern sets find_files is called with: a hand-written
\* directory pattern, and the default Config()'s common exclude patterns
WalkExcludeSets == {
    {NODE_MODULES_SLASH},
    NormalizedExcludePatterns(DefaultCommonExcludePatterns) }

\* the depth limits find_files is called with
WalkMaxDepths == {None, 0, 1, 2}

(***************************************************************************)
(* core.RepositoryIngestor._build_tree_structure.  A value of the nested   *)
(* dictionary is a record: None is a leaf, a dict is a node with children. *)
(***************************************************************************)
\* None
NoneValue == [leaf |-> TRUE, children |-> <<>>]

\* {}
EmptyDict == [leaf |-> FALSE, children |-> <<>>]

\* current[part] = value
SetItem(current, part, value) ==
    [leaf |-> FALSE,
     children |-> [k \in (DOMAIN current.children) \cup {part} |->
                      IF k = part THEN value ELSE current.children[k]]]

\* the inner loop raises TypeError: a directory part names an entry that is
\* None, so current becomes None and is then indexed or tested
RECURSIVE TreeInsertRaises(_, _)
TreeInsertRaises(current, parts) ==
    /\ Len(parts) > 1
    /\ Head(parts) \in DOMAIN current.children
    /\ \/ current.children[Head(parts)].leaf
       \/ TreeInsertRaises(current.children[Head(parts)], Tail(parts))

\* a mutant of TreeInsert: a directory part always gets a fresh dict
RECURSIVE TreeInsert_ResetDir(_, _)
TreeInsert_ResetDir(current, parts) ==
    IF Len(parts) = 1
    THEN SetItem(current, Head(parts), NoneValue)
    ELSE SetItem(current, Head(parts), TreeInsert_ResetDir(EmptyDict, Tail(parts)))

\* the inner loop over the parts of one path: the last part is set to None,
\* every other part is created as a dict if missing and descended into
RECURSIVE TreeInsert(_, _)
TreeInsert(current, parts) ==
    IF Len(parts) = 1
    THEN SetItem(current, Head(parts), NoneValue)
    ELSE LET child == IF Head(parts) \in DOMAIN current.children
                      THEN current.children[Head(parts)]
                      ELSE EmptyDict
         IN  SetItem(current, Head(parts), TreeInsert(child, Tail(parts)))

\* the outer loop, over the keys of files in their order
RECURSIVE BuildTreeFrom(_, _)
BuildTreeFrom(tree, file_paths) ==
    IF file_paths = <<>> THEN tree
    ELSE BuildTreeFrom(TreeInsert(tree, Split(Head(file_paths))), Tail(file_paths))

\* _build_tree_structure(files), files given as the list of its keys
build_tree_structure(file_paths) == BuildTreeFrom(EmptyDict, file_paths)

(***************************************************************************)
(* Language names, core file names and language filters.                   *)
(***************************************************************************)
CSHARP == <<"c","s","h","a","r","p">>

PYTHON == <<"p","y","t","h","o","n">>

REACT == <<"r","e","a","c","t">>

YAML == <<"y","a","m","l">>

README_MD == <<"R","E","A","D","M","E",".","m","d">>

LICENSE == <<"L","I","C","E","N","S","E">>

PYTHON_UPPER == <<"P","Y","T","H","O","N">>

GO == <<"g","o">>

(***************************************************************************)
(* More Python string functions used by core.py and the handlers.          *)
(***************************************************************************)
UpperCase == <<"A","B","C","D","E","F","G","H","I","J","K","L","M","N","O","P","Q","R","S","T","U","V","W","X","Y","Z">>
LowerCase == <<"a","b","c","d","e","f","g","h","i","j","k","l","m","n","o","p","q","r","s","t","u","v","w","x","y","z">>

\* one character lower-cased
LowerChar(c) ==
    IF \E i \in 1..Len(UpperCase) : UpperCase[i] = c
    THEN LowerCase[CHOOSE i \in 1..Len(UpperCase) : UpperCase[i] = c]
    ELSE c

\* s.lower()
Lower(s) == [i \in 1..Len(s) |-> LowerChar(s[i])]

\* s.rfind(c): the last position of c in s, 0 when there is none
RFind(s, c) ==
    LET hits == {i \in 1..Len(s) : s[i] = c}
    IN  IF hits = {} THEN 0 ELSE CHOOSE i \in hits : \A j \in hits : j <= i

\* os.path.basename(p)
Basename(p) == DropFirst(p, RFind(p, "/"))

\* os.path.splitext(p)[1]: from the last dot of the base name, unless the
\* base name has only dots before it
SplitExt(p) ==
    LET sepIndex == RFind(p, "/")
        dotIndex == RFind(p, ".")
    IN  IF /\ dotIndex > sepIndex
           /\ \E k \in (sepIndex + 1)..(dotIndex - 1) : p[k] # "."
        THEN DropFirst(p, dotIndex - 1)
        ELSE <<>>

\* the elements of a list, as a set
Range(seq) == {seq[i] : i \in 1..Len(seq)}

\* [x for x in seq if x in keep]
RECURSIVE Filtered(_, _)
Filtered(seq, keep) ==
    IF seq = <<>> THEN <<>>
    ELSE IF Head(seq) \in keep
         THEN <<Head(seq)>> \o Filtered(Tail(seq), keep)
         ELSE Filtered(Tail(seq), keep)

(***************************************************************************)
(* Language handlers.  YamlLanguageHandler is modelled from its source;    *)
(* BaseLanguageHandler and the python, csharp and react handlers from      *)
(* their contract (section 4.3 of the specification).                      *)
(***************************************************************************)
\* LANGUAGE_HANDLERS, in registry order
LANGUAGE_HANDLERS == <<CSHARP, PYTHON, REACT, YAML>>

\* Config.languages after __post_init__
ConfigLanguages == [lang \in Range(LANGUAGE_HANDLERS) |->
    IF lang = PYTHON THEN PythonLanguageConfig
    ELSE IF lang = CSHARP THEN CSharpLanguageConfig
    ELSE IF lang = REACT THEN ReactLanguageConfig
    ELSE YamlLanguageConfig]

\* Config(common_include_patterns=..., common_exclude_patterns=..., max_depth=...)
Config(common_include_patterns, common_exclude_patterns, max_depth) == [
    common_include_patterns |-> {ReplaceBackslash(p) : p \in common_include_patterns},
    common_exclude_patterns |-> NormalizedExcludePatterns(common_exclude_patterns),
    languages |-> ConfigLanguages,
    max_file_size_kb |-> DefaultMaxFileSizeKb,
    max_depth |-> max_depth,
    remove_comments |-> TRUE ]

\* Config()
DefaultConfig == Config(DefaultCommonIncludePatterns, DefaultCommonExcludePatterns, None)

\* handler_class(self.config.languages.get(lang_name))
NewHandler(lang, config) == [lang |-> lang, config |-> config.languages[lang]]

\* BaseLanguageHandler.get_include_patterns: the profile's include patterns
\* and one "*<ext>" pattern per extension
get_include_patterns(handler) ==
    handler.config.include_patterns
        \cup {<<"*">> \o ext : ext \in handler.config.extensions}

\* BaseLanguageHandler.get_exclude_patterns
get_exclude_patterns(handler) == handler.config.exclude_patterns

\* YamlLanguageHandler.detect_language: repo_path.glob("**/*.yaml") or
\* glob("**/*.yml") finds a file.  Every pattern of specific_files ends in
\* .yml or .yaml, so the second loop finds nothing the first test missed.
YamlDetectLanguage(repo) ==
    \E f \in repo :
        \/ fnmatch(Basename(f.path), <<"*", ".", "y", "a", "m", "l">>)
        \/ fnmatch(Basename(f.path), <<"*", ".", "y", "m", "l">>)

\* detect_language of the python, csharp and react handlers: a file with one
\* of the language's extensions, or one of its config files, exists
ProfileDetectLanguage(repo, handler) ==
    \E f \in repo :
        \/ \E ext \in handler.config.extensions : fnmatch(Basename(f.path), <<"*">> \o ext)
        \/ \E c \in handler.config.config_files : fnmatch(Basename(f.path), c)

\* handler.detect_language(repo_path)
detect_language(handler, repo) ==
    IF handler.lang = YAML THEN YamlDetectLanguage(repo)
    ELSE ProfileDetectLanguage(repo, handler)

(***************************************************************************)
(* core.RepositoryIngestor                                                 *)
(***************************************************************************)
\* _detect_languages: the detected languages, in registry order
DetectedLanguages(repo, config) ==
    Filtered(LANGUAGE_HANDLERS, {lang \in Range(LANGUAGE_HANDLERS) : detect_language(NewHandler(lang, config), repo)})

\* _detect_languages: self.handlers afterwards
HandlersAfterDetect(handlers, repo, config) ==
    LET detected == Range(DetectedLanguages(repo, config))
    IN  [lang \in (DOMAIN handlers) \cup detected |->
            IF lang \in detected THEN NewHandler(lang, config) ELSE handlers[lang]]

\* a mutant of FilteredLanguages: the entries of the filter are not lower-cased
FilteredLanguages_CaseSensitive(all_languages, languages_filter) ==
    IF languages_filter # <<>> /\ all_languages # <<>>
    THEN Filtered(all_languages, {lang \in Range(all_languages) : Lower(lang) \in Range(languages_filter)})
    ELSE all_languages

\* a mutant of FilteredLanguages: the languages come in the order of the
\* filter's entries
FilteredLanguages_FilterOrder(all_languages, languages_filter) ==
    IF languages_filter # <<>> /\ all_languages # <<>>
    THEN Filtered([i \in 1..Len(languages_filter) |-> Lower(languages_filter[i])], Range(all_languages))
    ELSE all_languages

\* ingest: languages after the filter (lines 301-321)
FilteredLanguages(all_languages, languages_filter) ==
    IF languages_filter # <<>> /\ all_languages # <<>>
    THEN LET languages_filter_lower == {Lower(l) : l \in Range(languages_filter)}
         IN  Filtered(all_languages, {lang \in Range(all_languages) : Lower(lang) \in languages_filter_lower})
    ELSE all_languages

\* _collect_files: include_patterns
CollectIncludePatterns(config, handlers, languages) ==
    config.common_include_patterns
        \cup UNION {get_include_patterns(handlers[lang]) : lang \in Range(languages) \cap DOMAIN handlers}

\* _collect_files: exclude_patterns
CollectExcludePatterns(config, handlers, languages) ==
    config.common_exclude_patterns
        \cup UNION {get_exclude_patterns(handlers[lang]) : lang \in Range(languages) \cap DOMAIN handlers}

\* a mutant of ConfigAfterCollect: the handlers' patterns are merged into
\* the configuration's own sets
ConfigAfterCollect_NoCopy(config, handlers, languages) ==
    [config EXCEPT
        !.common_include_patterns = CollectIncludePatterns(config, handlers, languages),
        !.common_exclude_patterns = CollectExcludePatterns(config, handlers, languages)]

\* _collect_files, lines 74-81: self.config after the handlers' patterns were
\* merged into set(self.config.common_include_patterns) and
\* set(self.config.common_exclude_patterns), which are copies
ConfigAfterCollect(config, handlers, languages) == config

\* _collect_files: file_paths
CollectFilePaths(repo, config, handlers, languages) ==
    find_files(repo, CollectIncludePatterns(config, handlers, languages), CollectExcludePatterns(config, handlers, languages), config.max_file_size_kb, config.max_depth)

\* _collect_files: explicit_common_patterns
ExplicitCommonPatterns(config) ==
    {p \in config.common_include_patterns : ~HasChar(p, "*") /\ ~HasChar(p, "?")}

\* a mutant of ShouldInclude: the language-specific patterns of every handler
\* in self.handlers are tried, not only those of the call's languages
ShouldInclude_AnyHandler(relative_path, config, handlers, languages) ==
    IF languages = <<>> THEN TRUE
    ELSE \/ \E lang \in DOMAIN handlers :
                \E pattern \in get_include_patterns(handlers[lang]) :
                    matches_any_pattern(relative_path, {pattern})
         \/ \E p \in ExplicitCommonPatterns(config) : p = relative_path

\* a mutant of ShouldInclude: the fallback takes every common include
\* pattern, wildcards too, and matches it as a pattern
ShouldInclude_WildcardCommon(relative_path, config, handlers, languages) ==
    IF languages = <<>> THEN TRUE
    ELSE \/ \E lang \in Range(languages) \cap DOMAIN handlers :
                \E pattern \in get_include_patterns(handlers[lang]) :
                    matches_any_pattern(relative_path, {pattern})
         \/ matches_any_pattern(relative_path, config.common_include_patterns)

\* _collect_files: should_include
ShouldInclude(relative_path, config, handlers, languages) ==
    IF languages = <<>> THEN TRUE
    ELSE \/ \E lang \in Range(languages) \cap DOMAIN handlers :
                \E pattern \in get_include_patterns(handlers[lang]) :
                    matches_any_pattern(relative_path, {pattern})
         \/ \E p \in ExplicitCommonPatterns(config) : p = relative_path

\* _collect_files: the files map, relative path -> content
CollectFiles(file_paths, config, handlers, languages) ==
    LET kept == {f \in Range(file_paths) : ShouldInclude(f.path, config, handlers, languages)}
    IN  [relative_path \in {f.path : f \in kept} |->
            get_file_content(CHOOSE f \in kept : f.path = relative_path)]

\* ingest: allowed_core_files
AllowedCoreFiles == {README_MD, LICENSE}

\* ingest: allowed_extensions
AllowedExtensions(config, languages) ==
    UNION {config.languages[lang].extensions : lang \in Range(languages) \cap DOMAIN config.languages}

\* ingest: allowed_config_files
AllowedConfigFiles(config, languages) ==
    UNION {config.languages[lang].config_files : lang \in Range(languages) \cap DOMAIN config.languages}

\* a mutant of KeptByFilter: the config-file test is forgotten
KeptByFilter_NoConfigFiles(file_path, config, languages) ==
    \/ file_path \in AllowedCoreFiles
    \/ Basename(file_path) \in AllowedCoreFiles
    \/ Lower(SplitExt(file_path)) \in AllowedExtensions(config, languages)

\* ingest, lines 345-357: is the file copied to filtered_files
KeptByFilter(file_path, config, languages) ==
    \/ file_path \in AllowedCoreFiles
    \/ Basename(file_path) \in AllowedCoreFiles
    \/ Lower(SplitExt(file_path)) \in AllowedExtensions(config, languages)
    \/ \E pattern \in AllowedConfigFiles(config, languages) :
            matches_any_pattern(file_path, {pattern})

\* a mutant of FilterFiles: the secondary filter is skipped
FilterFiles_Skip(files, config, languages_filter, languages) == files

\* a mutant of FilterFiles: the secondary filter runs whenever a filter was
\* given, whether or not a detected language matched it
FilterFiles_WheneverFilterGiven(files, config, languages_filter, languages) ==
    IF languages_filter # <<>>
    THEN [file_path \in {p \in DOMAIN files : KeptByFilter(p, config, languages)} |-> files[file_path]]
    ELSE files

\* ingest, lines 326-360: files after the secondary filter
FilterFiles(files, config, languages_filter, languages) ==
    IF languages_filter # <<>> /\ languages # <<>>
    THEN [file_path \in {p \in DOMAIN files : KeptByFilter(p, config, languages)} |-> files[file_path]]
    ELSE files

\* what os.walk and Path.glob find under the root: nothing when the root is
\* missing or is not a directory (neither raises)
UnderRoot(root, repo) == IF root = "directory" THEN repo ELSE {}

\* _collect_files: find_files raises
CollectRaises(repo, config, handlers, languages) ==
    find_files_raises(repo, CollectIncludePatterns(config, handlers, languages), CollectExcludePatterns(config, handlers, languages), config.max_file_size_kb, config.max_depth)

\* a mutant of AfterFilter: token_estimate_only is ignored
AfterFilter_AlwaysFull(token_estimate_only) == "dependencies"

\* ingest, line 362: where the call goes after the secondary filter
AfterFilter(token_estimate_only) ==
    IF token_estimate_only THEN "estimate" ELSE "dependencies"

\* the keys of files in the order they were inserted: the order of
\* find_files' result
FileKeys(file_paths, files) ==
    LET keys == [i \in 1..Len(file_paths) |-> file_paths[i].path]
    IN  Filtered(keys, DOMAIN files)

\* what a handler's regular expressions extract from one file's content:
\* some value that depends on the handler and on the content only
Extracted(lang, content) == <<lang, content.text>>

\* YamlLanguageHandler.analyze_dependencies: an entry for every file whose
\* lower-cased path ends in .yml or .yaml
YamlAnalyzeDependencies(files) ==
    [file_path \in {p \in DOMAIN files :
                        \/ EndsWith(Lower(p), <<".", "y", "m", "l">>)
                        \/ EndsWith(Lower(p), <<".", "y", "a", "m", "l">>)} |->
        Extracted(YAML, files[file_path])]

\* analyze_dependencies of the python, csharp and react handlers: an entry
\* for every file the handler recognizes, none for the others
ProfileAnalyzeDependencies(handler, files) ==
    [file_path \in {p \in DOMAIN files : Lower(SplitExt(p)) \in handler.config.extensions} |->
        Extracted(handler.lang, files[file_path])]

\* handler.analyze_dependencies(files)
analyze_dependencies(handler, files) ==
    IF handler.lang = YAML THEN YamlAnalyzeDependencies(files)
    ELSE ProfileAnalyzeDependencies(handler, files)

\* handler.extract_project_metadata(files): a summary of the files the
\* handler recognizes
extract_project_metadata(handler, files) ==
    [language |-> handler.lang,
     files |-> DOMAIN analyze_dependencies(handler, files)]

\* all_dependencies.update(lang_dependencies): the later mapping wins
DictUpdate(d, e) ==
    [k \in (DOMAIN d) \cup (DOMAIN e) |-> IF k \in DOMAIN e THEN e[k] ELSE d[k]]

\* a mutant of ActiveLanguages: the loops call every handler self.handlers
\* holds
ActiveLanguages_AllHandlers(handlers, languages) == Filtered(LANGUAGE_HANDLERS, DOMAIN handlers)

\* the languages whose handler the loops of _analyze_dependencies and
\* _extract_metadata call, in order
ActiveLanguages(handlers, languages) == Filtered(languages, DOMAIN handlers)

\* _analyze_dependencies: all_dependencies after the loop over languages
RECURSIVE AnalyzeDependenciesFrom(_, _, _, _)
AnalyzeDependenciesFrom(all_dependencies, handlers, files, languages) ==
    IF languages = <<>> THEN all_dependencies
    ELSE AnalyzeDependenciesFrom(
             DictUpdate(all_dependencies, analyze_dependencies(handlers[Head(languages)], files)),
             handlers, files, Tail(languages))

\* _analyze_dependencies(files, languages)
AnalyzeDependencies(handlers, files, languages) ==
    AnalyzeDependenciesFrom(<<>>, handlers, files, ActiveLanguages(handlers, languages))

\* _analyze_dependencies raises: a handler's analyze_dependencies raises and
\* the loop has no try around the call
AnalyzeDependenciesRaises(handlers, languages, faults) ==
    \E lang \in Range(ActiveLanguages(handlers, languages)) :
        <<lang, "analyze_dependencies">> \in faults

\* _extract_metadata(files, languages), time.time() having returned now
ExtractMetadata(handlers, files, languages, now) ==
    [timestamp |-> now,
     languages |-> languages,
     file_count |-> Cardinality(DOMAIN files),
     language_metadata |->
         [lang \in Range(ActiveLanguages(handlers, languages)) |->
             extract_project_metadata(handlers[lang], files)]]

\* _extract_metadata raises
ExtractMetadataRaises(handlers, languages, faults) ==
    \E lang \in Range(ActiveLanguages(handlers, languages)) :
        <<lang, "extract_project_metadata">> \in faults

\* token_utils.estimate_repository_tokens(repo_data): a total that counts
\* every file's content
RECURSIVE TotalTokens(_, _)
TotalTokens(files, paths) ==
    IF paths = {} THEN 0
    ELSE LET p == CHOOSE q \in paths : TRUE
         IN  Len(files[p].text) + TotalTokens(files, paths \ {p})

estimate_repository_tokens(repo_data) ==
    "total_tokens" :> TotalTokens(repo_data.files, DOMAIN repo_data.files)

\* _analyze_tokens(files, metadata, tree, dependencies)
AnalyzeTokens(files, metadata, tree, dependencies) ==
    estimate_repository_tokens([
        files |-> files,
        metadata |-> metadata,
        tree_structure |-> tree,
        file_dependencies |-> dependencies])

\* _analyze_functions(files): the analyzers' findings, to which the two
\* summary keys are always added
AnalyzeFunctions(files) ==
    ("total_function_count" :> Cardinality(DOMAIN files))
        @@ ("analysis_coverage" :> Cardinality(DOMAIN files))

\* ingest, lines 374-383: the RepositoryInfo of an estimate-only run
EstimateOnlyInfo(languages, file_paths, files) ==
    LET dummy_tree == build_tree_structure(FileKeys(file_paths, files))
    IN  [root_path |-> "repo_path",
         languages |-> languages,
         files |-> files,
         file_dependencies |-> <<>>,
         metadata |-> [languages |-> languages, file_count |-> Cardinality(DOMAIN files)],
         tree_structure |-> dummy_tree,
         token_info |-> AnalyzeTokens(files, [languages |-> languages], dummy_tree, <<>>),
         function_info |-> <<>>]

(***************************************************************************)
(* Files the repositories of the ingestion specification are made of.      *)
(***************************************************************************)
\* main.py: a python source file
File_main_py == [
    path |-> <<"m","a","i","n",".","p","y">>,
    size |-> 100,
    bytes |-> <<"utf8">> ]

\* requirements.txt: a python config file
File_requirements_txt == [
    path |-> <<"r","e","q","u","i","r","e","m","e","n","t","s",".","t","x","t">>,
    size |-> 100,
    bytes |-> <<"utf8">> ]

\* csharp/Program.cs: a C# source file
File_csharp_Program_cs == [
    path |-> <<"c","s","h","a","r","p","/","P","r","o","g","r","a","m",".","c","s">>,
    size |-> 100,
    bytes |-> <<"utf8">> ]

\* docker-compose.yml: a YAML file
File_docker_compose_yml == [
    path |-> <<"d","o","c","k","e","r","-","c","o","m","p","o","s","e",".","y","m","l">>,
    size |-> 100,
    bytes |-> <<"utf8">> ]

\* README.md: a core file
File_README_md == [
    path |-> <<"R","E","A","D","M","E",".","m","d">>,
    size |-> 100,
    bytes |-> <<"utf8">> ]

\* web.config: matches the common pattern *.config only
File_web_config == [
    path |-> <<"w","e","b",".","c","o","n","f","i","g">>,
    size |-> 100,
    bytes |-> <<"utf8">> ]

\* utils.py
File_utils_py == [
    path |-> <<"u","t","i","l","s",".","p","y">>,
    size |-> 100,
    bytes |-> <<"utf8">> ]

\* react/App.jsx
File_react_App_jsx == [
    path |-> <<"r","e","a","c","t","/","A","p","p",".","j","s","x">>,
    size |-> 100,
    bytes |-> <<"utf8">> ]

\* react/package.json
File_react_package_json == [
    path |-> <<"r","e","a","c","t","/","p","a","c","k","a","g","e",".","j","s","o","n">>,
    size |-> 100,
    bytes |-> <<"utf8">> ]

\* kubernetes/deployment.yaml
File_kubernetes_deployment_yaml == [
    path |-> <<"k","u","b","e","r","n","e","t","e","s","/","d","e","p","l","o","y","m","e","n","t",".","y","a","m","l">>,
    size |-> 100,
    bytes |-> <<"utf8">> ]

\* .github/workflows/ci.yml
File_github_workflows_ci_yml == [
    path |-> <<".","g","i","t","h","u","b","/","w","o","r","k","f","l","o","w","s","/","c","i",".","y","m","l">>,
    size |-> 100,
    bytes |-> <<"utf8">> ]

IngestFiles == {
    File_main_py,
    File_requirements_txt,
    File_csharp_Program_cs,
    File_docker_compose_yml,
    File_README_md,
    File_web_config,
    File_blob_py,
    File_tail_py }

\* the sample repository of tests/fixtures.py
SampleRepo == {
    File_main_py,
    File_utils_py,
    File_requirements_txt,
    File_csharp_Program_cs,
    File_react_App_jsx,
    File_react_package_json,
    File_docker_compose_yml,
    File_kubernetes_deployment_yaml,
    File_github_workflows_ci_yml }

\* the sample repository, and every repository of at most MaxRepoFiles files
IngestRepos == {r \in SUBSET IngestFiles : Cardinality(r) <= MaxRepoFiles} \cup {SampleRepo}

\* the values of languages_filter; None and [] are both false in the code's
\* tests, and are both written <<>>
LanguageFilters == {
    <<>>,
    <<PYTHON>>,
    <<PYTHON, YAML>>,
    <<PYTHON_UPPER>>,
    <<GO>> }

\* dangling.py: a symbolic link whose target is gone; os.walk lists it among
\* the files and Path.stat() raises FileNotFoundError
File_dangling_py == [
    path |-> <<"d","a","n","g","l","i","n","g",".","p","y">>,
    size |-> 0,
    bytes |-> <<>>,
    io_error |-> "stat" ]

\* locked.py: a file open() refuses with PermissionError
File_locked_py == [
    path |-> <<"l","o","c","k","e","d",".","p","y">>,
    size |-> 100,
    bytes |-> <<"utf8">>,
    io_error |-> "open" ]

\* repositories some of whose files cannot be read, and one without such
\* files
FailureRepos == {
    {File_main_py, File_docker_compose_yml},
    {File_main_py, File_dangling_py},
    {File_main_py, File_locked_py},
    {File_docker_compose_yml, File_README_md, File_dangling_py} }

\* docs/README.md: a README below the root
File_docs_README_md == [
    path |-> <<"d","o","c","s","/","R","E","A","D","M","E",".","m","d">>,
    size |-> 100,
    bytes |-> <<"utf8">> ]

\* repositories ingested with and without token_estimate_only
RunRepos == {
    {},
    {File_README_md, File_web_config},
    {File_main_py, File_docker_compose_yml, File_README_md},
    {File_main_py, File_web_config, File_docs_README_md},
    SampleRepo }

\* repositories two overlapping calls are given
OverlapRepos == {
    {File_main_py, File_web_config},
    {File_main_py, File_docker_compose_yml},
    {File_csharp_Program_cs, File_docker_compose_yml} }

\* the values of languages_filter two overlapping calls are given
OverlapFilters == {<<>>, <<PYTHON>>}

\* two calls of ingest on one RepositoryIngestor
CallIds == {"first", "second"}

\* a RepositoryInfo no call has produced yet
NoInfo == [
    root_path |-> "",
    languages |-> <<>>,
    files |-> <<>>,
    file_dependencies |-> <<>>,
    metadata |-> <<>>,
    tree_structure |-> EmptyDict,
    token_info |-> <<>>,
    function_info |-> <<>> ]

\* the arguments and locals of a call of ingest that has not started; repo
\* is the directory tree its repo_path names, error the call that raised
NoCall == [
    pc |-> "idle",
    error |-> "",
    repo |-> {},
    token_estimate_only |-> FALSE,
    languages_filter |-> <<>>,
    all_languages |-> <<>>,
    languages |-> <<>>,
    file_paths |-> <<>>,
    files |-> <<>>,
    dependencies |-> <<>>,
    metadata |-> <<>>,
    tree |-> EmptyDict,
    token_info |-> <<>>,
    function_info |-> <<>>,
    result |-> NoInfo ]

\* what the root path of the sequential calls names
RootKinds == {"directory", "missing", "file"}

\* the handler methods that may raise
HandlerFaults == {<<lang, method>> : lang \in {PYTHON, YAML}, method \in {"analyze_dependencies", "extract_project_metadata"}}

(***************************************************************************)
(* Paths _build_tree_structure is applied to.                              *)
(***************************************************************************)
\* at most this many paths in one files map
MaxTreeFiles == 3

\* the names directories and files are given
TreeNames == {<<"a">>, <<"d">>}

\* the paths of the example: a.py, d/b.py, d/e/c.js
TreeExamplePaths == {
    <<"a",".","p","y">>,
    <<"d","/","b",".","p","y">>,
    <<"d","/","e","/","c",".","j","s">> }

\* every path of one, two or three of the names, and the example's paths
TreePaths ==
    {Join(<<x>>) : x \in TreeNames}
        \cup {Join(<<x, y>>) : x \in TreeNames, y \in TreeNames}
        \cup {Join(<<x, y, z>>) : x \in TreeNames, y \in TreeNames, z \in TreeNames}
        \cup TreeExamplePaths

\* the key sets of the files maps
TreeInputs == {S \in SUBSET TreePaths : Cardinality(S) <= MaxTreeFiles}

(***************************************************************************)
(* State.                                                                  *)
(***************************************************************************)
VARIABLES
    \* one call of matches_any_pattern: its arguments, its position, its result
    m_path, m_patterns, m_pc, m_result,
    \* one call of find_files: the repository on disk and the arguments,
    w_repo, w_include, w_exclude, w_max_size_kb, w_max_depth,
    \* os.walk's pending directories (a stack), the result list, the position,
    w_pending, w_result, w_pc,
    \* the directories visited, and those popped from dirnames as excluded
    w_visited, w_pruned,
    \* the repository on disk and what its root path names; one
    \* RepositoryIngestor: self.config, self.handlers, and for each handler in
    \* self.handlers the call whose detection constructed it; the handler
    \* methods that raise; the clock time.time() reads; the arguments and
    \* locals of each call of ingest
    i_repo, i_root, i_config, i_handlers, i_owner, i_faults, i_clock, i_calls,
    \* one call of _build_tree_structure: the keys of files, those the loop has
    \* still to take, the tree so far, the position
    t_input, t_pending, t_tree, t_pc,
    \* one file on a host whose path separator is s_sep: the names on its way
    \* from the root, find_files' relative_path, the path the matcher matches,
    \* its key in files, the parts _build_tree_structure splits it into, the
    \* position
    s_sep, s_segs, s_relative_path, s_normalized_path, s_key, s_parts, s_pc

matchVars == <<m_path, m_patterns, m_pc, m_result>>
walkVars == <<w_repo, w_include, w_exclude, w_max_size_kb, w_max_depth, w_pending, w_result, w_pc, w_visited, w_pruned>>
ingestVars == <<i_repo, i_root, i_config, i_handlers, i_owner, i_faults, i_clock, i_calls>>
treeVars == <<t_input, t_pending, t_tree, t_pc>>
sepVars == <<s_sep, s_segs, s_relative_path, s_normalized_path, s_key, s_parts, s_pc>>
vars == <<matchVars, walkVars, ingestVars, treeVars, sepVars>>

\* the matcher call is not in use
MatchIdle ==
    /\ m_path = <<>>
    /\ m_patterns = {}
    /\ m_pc = "idle"
    /\ m_result = FALSE

\* the walker call is not in use
WalkIdle ==
    /\ w_repo = {}
    /\ w_include = {}
    /\ w_exclude = {}
    /\ w_max_size_kb = DefaultMaxFileSizeKb
    /\ w_max_depth = None
    /\ w_pending = <<>>
    /\ w_result = <<>>
    /\ w_pc = "idle"
    /\ w_visited = {}
    /\ w_pruned = {}

\* the tree builder is not in use
TreeIdle ==
    /\ t_input = {}
    /\ t_pending = {}
    /\ t_tree = EmptyDict
    /\ t_pc = "idle"

\* no file is followed from the host to the tree
SepIdle ==
    /\ s_sep = "/"
    /\ s_segs = <<>>
    /\ s_relative_path = <<>>
    /\ s_normalized_path = <<>>
    /\ s_key = <<>>
    /\ s_parts = <<>>
    /\ s_pc = "idle"

\* no repository is being ingested
IngestIdle ==
    /\ i_repo = {}
    /\ i_root = "directory"
    /\ i_config = DefaultConfig
    /\ i_handlers = <<>>
    /\ i_owner = <<>>
    /\ i_faults = {}
    /\ i_clock = 0
    /\ i_calls = [c \in CallIds |-> NoCall]

(***************************************************************************)
(* The matcher on its own: matches_any_pattern applied to paths drawn from *)
(* bounded sets.                                                           *)
(***************************************************************************)
\* the characters short paths are built from
Alphabet == {"f", "o", "/", "."}

\* every string of 1..MaxPathLen characters of the alphabet
AlphabetPaths == UNION {[1..n -> Alphabet] : n \in 1..MaxPathLen}

\* the segments longer paths are built from
Segments == {
    FOO,
    DOTVENV,
    BAR,
    NODE_MODULES,
    CJS }

\* every path of 1..MaxSegs of those segments
SegPaths == {Join(parts) : parts \in UNION {[1..n -> Segments] : n \in 1..MaxSegs}}

MatchPaths == AlphabetPaths \cup SegPaths

\* the pattern sets the matcher is called with
MatchPatternSets == {
    {FOO_SLASH},
    {DOTVENV_SLASH},
    {NODE_MODULES_SLASH},
    {STAR_JS},
    {FOO_SLASH, STAR_JS} }

MatchInit ==
    /\ SepIdle
    /\ WalkIdle
    /\ IngestIdle
    /\ TreeIdle
    /\ m_path \in MatchPaths
    /\ m_patterns \in MatchPatternSets
    /\ m_pc = "call"
    /\ m_result = FALSE

\* the call returns
MatchReturn ==
    /\ m_pc = "call"
    /\ m_result' = matches_any_pattern(m_path, m_patterns)
    /\ m_pc' = "done"
    /\ UNCHANGED <<m_path, m_patterns>>
    /\ UNCHANGED <<walkVars, ingestVars, treeVars, sepVars>>

MatchNext == MatchReturn

SpecMatch == MatchInit /\ [][MatchNext]_vars

(***************************************************************************)
(* The walker on its own: find_files, one directory of os.walk per step.   *)
(***************************************************************************)
WalkInit ==
    /\ SepIdle
    /\ MatchIdle
    /\ IngestIdle
    /\ TreeIdle
    /\ w_repo \in WalkRepos
    /\ w_include \in WalkIncludeSets
    /\ w_exclude \in WalkExcludeSets
    /\ w_max_size_kb = DefaultMaxFileSizeKb
    /\ w_max_depth \in WalkMaxDepths
    /\ w_pending = <<<<>>>>
    /\ w_result = <<>>
    /\ w_pc = "walk"
    /\ w_visited = {}
    /\ w_pruned = {}

\* one iteration of "for dirpath, dirnames, filenames in os.walk(root_dir)"
WalkVisit ==
    /\ w_pc = "walk"
    /\ w_pending # <<>>
    /\ LET dirpath == Head(w_pending)
       IN  /\ w_visited' = w_visited \cup {dirpath}
           /\ w_pruned' = w_pruned \cup
                  {dirpath \o <<d>> : d \in PrunedDirnames(w_repo, dirpath, w_exclude, w_max_depth)}
           /\ w_result' = w_result \o
                  SelectedFiles(w_repo, dirpath, w_include, w_exclude, w_max_size_kb)
           /\ w_pending' = ChildDirs(w_repo, dirpath, w_exclude, w_max_depth)
                               \o Tail(w_pending)
    /\ UNCHANGED <<w_repo, w_include, w_exclude, w_max_size_kb, w_max_depth, w_pc>>
    /\ UNCHANGED <<matchVars, ingestVars, treeVars, sepVars>>

\* os.walk is exhausted: return result
WalkReturn ==
    /\ w_pc = "walk"
    /\ w_pending = <<>>
    /\ w_pc' = "done"
    /\ UNCHANGED <<w_repo, w_include, w_exclude, w_max_size_kb, w_max_depth, w_pending, w_result, w_visited, w_pruned>>
    /\ UNCHANGED <<matchVars, ingestVars, treeVars, sepVars>>

WalkNext == WalkVisit \/ WalkReturn

SpecWalk == WalkInit /\ [][WalkNext]_vars

(***************************************************************************)
(* The tree builder on its own: _build_tree_structure applied to files     *)
(* maps with keys drawn from TreePaths, one key of the loop per step.  The *)
(* keys are taken in any order, as a dict may hold them in any order.      *)
(***************************************************************************)
TreeInit ==
    /\ SepIdle
    /\ MatchIdle
    /\ WalkIdle
    /\ IngestIdle
    /\ t_input \in TreeInputs
    /\ t_pending = t_input
    /\ t_tree = EmptyDict
    /\ t_pc = "build"

\* one iteration of "for file_path in files"
TreeStep ==
    /\ t_pc = "build"
    /\ \E file_path \in t_pending :
           LET parts == Split(file_path)
           IN  IF TreeInsertRaises(t_tree, parts)
               THEN /\ t_pc' = "raised"
                    /\ UNCHANGED <<t_pending, t_tree>>
               ELSE /\ t_tree' = TreeInsert(t_tree, parts)
                    /\ t_pending' = t_pending \ {file_path}
                    /\ t_pc' = "build"
    /\ UNCHANGED t_input
    /\ UNCHANGED <<matchVars, walkVars, ingestVars, sepVars>>

\* the loop is over: return tree
TreeReturn ==
    /\ t_pc = "build"
    /\ t_pending = {}
    /\ t_pc' = "done"
    /\ UNCHANGED <<t_input, t_pending, t_tree>>
    /\ UNCHANGED <<matchVars, walkVars, ingestVars, sepVars>>

TreeNext == TreeStep \/ TreeReturn

SpecTree == TreeInit /\ [][TreeNext]_vars

(***************************************************************************)
(* Ingestion: RepositoryIngestor(config).ingest(repo_path, ...), called    *)
(* twice, the second call after the first has returned.                    *)
(***************************************************************************)
\* RepositoryIngestor.__init__, on a repository on disk
Init ==
    /\ SepIdle
    /\ MatchIdle
    /\ WalkIdle
    /\ TreeIdle
    /\ i_repo \in IngestRepos
    /\ i_root = "directory"
    /\ i_config = DefaultConfig
    /\ i_handlers = <<>>
    /\ i_owner = <<>>
    /\ i_faults = {}
    /\ i_clock = 0
    /\ i_calls = [c \in CallIds |-> NoCall]

\* the call has returned or raised
Over(c) == i_calls[c].pc \in {"done", "raised"}

\* ingest is called, the second call after the first is over
IngestCall(c, token_estimate_only, languages_filter) ==
    /\ i_calls[c].pc = "idle"
    /\ c = "second" => Over("first")
    /\ i_calls' = [i_calls EXCEPT ![c] = [NoCall EXCEPT
           !.pc = "detect",
           !.repo = UnderRoot(i_root, i_repo),
           !.token_estimate_only = token_estimate_only,
           !.languages_filter = languages_filter]]
    /\ UNCHANGED <<i_repo, i_root, i_config, i_handlers, i_owner, i_faults, i_clock>>
    /\ UNCHANGED <<matchVars, walkVars, treeVars, sepVars>>

\* self.handlers[lang_name] = handler: the handlers this call's detection
\* stores were constructed by this call, the others stay whose they were
OwnersAfterDetect(owner, handlers, all_languages, c) ==
    [lang \in DOMAIN handlers |-> IF lang \in Range(all_languages) THEN c ELSE owner[lang]]

\* a mutant of IngestDetect: a language whose handler self.handlers already
\* holds is not detected again
IngestDetect_SkipKnown(c) ==
    /\ i_calls[c].pc = "detect"
    /\ LET all_languages == Filtered(DetectedLanguages(i_calls[c].repo, i_config),
                                     Range(DetectedLanguages(i_calls[c].repo, i_config)) \ DOMAIN i_handlers)
       IN  /\ i_handlers' = HandlersAfterDetect(i_handlers, i_calls[c].repo, i_config)
           /\ i_owner' = OwnersAfterDetect(i_owner, i_handlers', all_languages, c)
           /\ i_calls' = [i_calls EXCEPT ![c] = [@ EXCEPT
                  !.pc = "collect",
                  !.all_languages = all_languages,
                  !.languages = FilteredLanguages(all_languages, i_calls[c].languages_filter)]]
    /\ UNCHANGED <<i_repo, i_root, i_config, i_faults, i_clock>>
    /\ UNCHANGED <<matchVars, walkVars, treeVars, sepVars>>

\* ingest, lines 293-321: detect the languages and apply the filter
IngestDetect(c) ==
    /\ i_calls[c].pc = "detect"
    /\ LET all_languages == DetectedLanguages(i_calls[c].repo, i_config)
       IN  /\ i_handlers' = HandlersAfterDetect(i_handlers, i_calls[c].repo, i_config)
           /\ i_owner' = OwnersAfterDetect(i_owner, i_handlers', all_languages, c)
           /\ i_calls' = [i_calls EXCEPT ![c] = [@ EXCEPT
                  !.pc = "collect",
                  !.all_languages = all_languages,
                  !.languages = FilteredLanguages(all_languages, i_calls[c].languages_filter)]]
    /\ UNCHANGED <<i_repo, i_root, i_config, i_faults, i_clock>>
    /\ UNCHANGED <<matchVars, walkVars, treeVars, sepVars>>

\* a mutant of IngestCollect: _collect_files is given the filtered languages
IngestCollect_FilteredLanguages(c) ==
    /\ i_calls[c].pc = "collect"
    /\ IF CollectRaises(i_calls[c].repo, i_config, i_handlers, i_calls[c].languages)
       THEN i_calls' = [i_calls EXCEPT ![c] = [@ EXCEPT !.pc = "raised", !.error = "find_files"]]
       ELSE LET file_paths == CollectFilePaths(i_calls[c].repo, i_config, i_handlers, i_calls[c].languages)
            IN  i_calls' = [i_calls EXCEPT ![c] = [@ EXCEPT
                    !.pc = "filter",
                    !.file_paths = file_paths,
                    !.files = CollectFiles(file_paths, i_config, i_handlers, i_calls[c].languages)]]
    /\ i_config' = ConfigAfterCollect(i_config, i_handlers, i_calls[c].languages)
    /\ UNCHANGED <<i_repo, i_root, i_handlers, i_owner, i_faults, i_clock>>
    /\ UNCHANGED <<matchVars, walkVars, treeVars, sepVars>>

\* ingest, line 324: files = self._collect_files(repo_path, all_languages);
\* an OSError find_files lets through ends the call
IngestCollect(c) ==
    /\ i_calls[c].pc = "collect"
    /\ IF CollectRaises(i_calls[c].repo, i_config, i_handlers, i_calls[c].all_languages)
       THEN i_calls' = [i_calls EXCEPT ![c] = [@ EXCEPT !.pc = "raised", !.error = "find_files"]]
       ELSE LET file_paths == CollectFilePaths(i_calls[c].repo, i_config, i_handlers, i_calls[c].all_languages)
            IN  i_calls' = [i_calls EXCEPT ![c] = [@ EXCEPT
                    !.pc = "filter",
                    !.file_paths = file_paths,
                    !.files = CollectFiles(file_paths, i_config, i_handlers, i_calls[c].all_languages)]]
    /\ i_config' = ConfigAfterCollect(i_config, i_handlers, i_calls[c].all_languages)
    /\ UNCHANGED <<i_repo, i_root, i_handlers, i_owner, i_faults, i_clock>>
    /\ UNCHANGED <<matchVars, walkVars, treeVars, sepVars>>

\* a mutant of IngestFilter: an estimate-only run exits before the secondary
\* filter
IngestFilter_EstimateUnfiltered(c) ==
    /\ i_calls[c].pc = "filter"
    /\ i_calls' = [i_calls EXCEPT ![c] = [@ EXCEPT
           !.pc = AfterFilter(i_calls[c].token_estimate_only),
           !.files = IF i_calls[c].token_estimate_only
                     THEN i_calls[c].files
                     ELSE FilterFiles(i_calls[c].files, i_config, i_calls[c].languages_filter, i_calls[c].languages)]]
    /\ UNCHANGED <<i_repo, i_root, i_config, i_handlers, i_owner, i_faults, i_clock>>
    /\ UNCHANGED <<matchVars, walkVars, treeVars, sepVars>>

\* ingest, lines 326-362: the secondary filter, then the branch on
\* token_estimate_only
IngestFilter(c) ==
    /\ i_calls[c].pc = "filter"
    /\ i_calls' = [i_calls EXCEPT ![c] = [@ EXCEPT
           !.pc = AfterFilter(i_calls[c].token_estimate_only),
           !.files = FilterFiles(i_calls[c].files, i_config, i_calls[c].languages_filter, i_calls[c].languages)]]
    /\ UNCHANGED <<i_repo, i_root, i_config, i_handlers, i_owner, i_faults, i_clock>>
    /\ UNCHANGED <<matchVars, walkVars, treeVars, sepVars>>

\* ingest, lines 362-383: the estimate-only run builds the tree, estimates
\* the tokens and returns
IngestEstimate(c) ==
    /\ i_calls[c].pc = "estimate"
    /\ LET info == EstimateOnlyInfo(i_calls[c].languages, i_calls[c].file_paths, i_calls[c].files)
       IN  i_calls' = [i_calls EXCEPT ![c] = [@ EXCEPT
               !.pc = "done",
               !.tree = info.tree_structure,
               !.token_info = info.token_info,
               !.result = info]]
    /\ UNCHANGED <<i_repo, i_root, i_config, i_handlers, i_owner, i_faults, i_clock>>
    /\ UNCHANGED <<matchVars, walkVars, treeVars, sepVars>>

\* a mutant of IngestDependencies: the tree is built right after the
\* dependency analysis, before the metadata is extracted
IngestDependencies_ThenTree(c) ==
    /\ i_calls[c].pc = "dependencies"
    /\ i_calls' = [i_calls EXCEPT ![c] = [@ EXCEPT
           !.pc = "tree",
           !.dependencies = AnalyzeDependencies(i_handlers, i_calls[c].files, i_calls[c].languages)]]
    /\ UNCHANGED <<i_repo, i_root, i_config, i_handlers, i_owner, i_faults, i_clock>>
    /\ UNCHANGED <<matchVars, walkVars, treeVars, sepVars>>

\* ingest, line 385: dependencies = self._analyze_dependencies(files, languages)
IngestDependencies(c) ==
    /\ i_calls[c].pc = "dependencies"
    /\ IF AnalyzeDependenciesRaises(i_handlers, i_calls[c].languages, i_faults)
       THEN i_calls' = [i_calls EXCEPT ![c] = [@ EXCEPT !.pc = "raised", !.error = "analyze_dependencies"]]
       ELSE i_calls' = [i_calls EXCEPT ![c] = [@ EXCEPT
                !.pc = "metadata",
                !.dependencies = AnalyzeDependencies(i_handlers, i_calls[c].files, i_calls[c].languages)]]
    /\ UNCHANGED <<i_repo, i_root, i_config, i_handlers, i_owner, i_faults, i_clock>>
    /\ UNCHANGED <<matchVars, walkVars, treeVars, sepVars>>

\* ingest, line 386: metadata = self._extract_metadata(files, languages);
\* time.time() is read before the handlers are called
IngestMetadata(c) ==
    /\ i_calls[c].pc = "metadata"
    /\ i_clock' = i_clock + 1
    /\ IF ExtractMetadataRaises(i_handlers, i_calls[c].languages, i_faults)
       THEN i_calls' = [i_calls EXCEPT ![c] = [@ EXCEPT !.pc = "raised", !.error = "extract_project_metadata"]]
       ELSE i_calls' = [i_calls EXCEPT ![c] = [@ EXCEPT
                !.pc = "tree",
                !.metadata = ExtractMetadata(i_handlers, i_calls[c].files, i_calls[c].languages, i_clock')]]
    /\ UNCHANGED <<i_repo, i_root, i_config, i_handlers, i_owner, i_faults>>
    /\ UNCHANGED <<matchVars, walkVars, treeVars, sepVars>>

\* ingest, line 387: tree = self._build_tree_structure(files)
IngestTree(c) ==
    /\ i_calls[c].pc = "tree"
    /\ i_calls' = [i_calls EXCEPT ![c] = [@ EXCEPT
           !.pc = "tokens",
           !.tree = build_tree_structure(FileKeys(i_calls[c].file_paths, i_calls[c].files))]]
    /\ UNCHANGED <<i_repo, i_root, i_config, i_handlers, i_owner, i_faults, i_clock>>
    /\ UNCHANGED <<matchVars, walkVars, treeVars, sepVars>>

\* ingest, line 388: token_info = self._analyze_tokens(files, metadata, tree, dependencies)
IngestTokens(c) ==
    /\ i_calls[c].pc = "tokens"
    /\ i_calls' = [i_calls EXCEPT ![c] = [@ EXCEPT
           !.pc = "functions",
           !.token_info = AnalyzeTokens(i_calls[c].files, i_calls[c].metadata, i_calls[c].tree, i_calls[c].dependencies)]]
    /\ UNCHANGED <<i_repo, i_root, i_config, i_handlers, i_owner, i_faults, i_clock>>
    /\ UNCHANGED <<matchVars, walkVars, treeVars, sepVars>>

\* ingest, line 389: function_info = self._analyze_functions(files)
IngestFunctions(c) ==
    /\ i_calls[c].pc = "functions"
    /\ i_calls' = [i_calls EXCEPT ![c] = [@ EXCEPT
           !.pc = "return",
           !.function_info = AnalyzeFunctions(i_calls[c].files)]]
    /\ UNCHANGED <<i_repo, i_root, i_config, i_handlers, i_owner, i_faults, i_clock>>
    /\ UNCHANGED <<matchVars, walkVars, treeVars, sepVars>>

\* ingest, lines 396-405: the full run returns its RepositoryInfo
IngestReturn(c) ==
    /\ i_calls[c].pc = "return"
    /\ i_calls' = [i_calls EXCEPT ![c] = [@ EXCEPT
           !.pc = "done",
           !.result = [
               root_path |-> "repo_path",
               languages |-> i_calls[c].languages,
               files |-> i_calls[c].files,
               file_dependencies |-> i_calls[c].dependencies,
               metadata |-> i_calls[c].metadata,
               tree_structure |-> i_calls[c].tree,
               token_info |-> i_calls[c].token_info,
               function_info |-> i_calls[c].function_info]]]
    /\ UNCHANGED <<i_repo, i_root, i_config, i_handlers, i_owner, i_faults, i_clock>>
    /\ UNCHANGED <<matchVars, walkVars, treeVars, sepVars>>

\* the stages of a full run
FullStages(c) ==
    \/ IngestDetect(c)
    \/ IngestCollect(c)
    \/ IngestFilter(c)
    \/ IngestDependencies(c)
    \/ IngestMetadata(c)
    \/ IngestTree(c)
    \/ IngestTokens(c)
    \/ IngestFunctions(c)
    \/ IngestReturn(c)

\* two full runs, one after the other
Next ==
    \E c \in CallIds :
        \/ \E languages_filter \in LanguageFilters : IngestCall(c, FALSE, languages_filter)
        \/ FullStages(c)

Spec == Init /\ [][Next]_vars

(***************************************************************************)
(* Runs with and without token_estimate_only, the second call on the same  *)
(* RepositoryIngestor or on a new one.                                     *)
(***************************************************************************)
InitRuns ==
    /\ SepIdle
    /\ MatchIdle
    /\ WalkIdle
    /\ TreeIdle
    /\ i_repo \in RunRepos
    /\ i_root = "directory"
    /\ i_config = DefaultConfig
    /\ i_handlers = <<>>
    /\ i_owner = <<>>
    /\ i_faults = {}
    /\ i_clock = 0
    /\ i_calls = [c \in CallIds |-> NoCall]

\* RepositoryIngestor.__init__: the second call is made on a new ingestor
IngestorInit ==
    /\ Over("first")
    /\ i_calls["second"].pc = "idle"
    /\ i_handlers' = <<>>
    /\ i_owner' = <<>>
    /\ UNCHANGED <<i_repo, i_root, i_config, i_faults, i_clock, i_calls>>
    /\ UNCHANGED <<matchVars, walkVars, treeVars, sepVars>>

NextRuns ==
    \/ \E c \in CallIds :
           \/ \E token_estimate_only \in BOOLEAN : \E languages_filter \in LanguageFilters :
                  IngestCall(c, token_estimate_only, languages_filter)
           \/ FullStages(c)
           \/ IngestEstimate(c)
    \/ IngestorInit

SpecRuns == InitRuns /\ [][NextRuns]_vars

(***************************************************************************)
(* Full runs that meet a failure: a root that is no directory, a file that *)
(* cannot be read, a handler method that raises.                           *)
(***************************************************************************)
InitFailure ==
    /\ SepIdle
    /\ MatchIdle
    /\ WalkIdle
    /\ TreeIdle
    /\ i_repo \in FailureRepos
    /\ i_root \in RootKinds
    /\ i_config = DefaultConfig
    /\ i_handlers = <<>>
    /\ i_owner = <<>>
    /\ i_faults \in {F \in SUBSET HandlerFaults : Cardinality(F) <= 1}
    /\ i_clock = 0
    /\ i_calls = [c \in CallIds |-> NoCall]

SpecFailure == InitFailure /\ [][Next]_vars

(***************************************************************************)
(* Two full runs on one RepositoryIngestor that overlap in time, each on   *)
(* its own repository.                                                     *)
(***************************************************************************)
InitOverlap ==
    /\ SepIdle
    /\ MatchIdle
    /\ WalkIdle
    /\ TreeIdle
    /\ i_repo = {}
    /\ i_root = "directory"
    /\ i_config = DefaultConfig
    /\ i_handlers = <<>>
    /\ i_owner = <<>>
    /\ i_faults = {}
    /\ i_clock = 0
    /\ i_calls = [c \in CallIds |-> NoCall]

\* ingest is called, whatever the other call is doing
IngestCallOverlapping(c) ==
    /\ i_calls[c].pc = "idle"
    /\ \E repo \in OverlapRepos : \E languages_filter \in OverlapFilters :
           i_calls' = [i_calls EXCEPT ![c] = [NoCall EXCEPT
               !.pc = "detect",
               !.repo = repo,
               !.languages_filter = languages_filter]]
    /\ UNCHANGED <<i_repo, i_root, i_config, i_handlers, i_owner, i_faults, i_clock>>
    /\ UNCHANGED <<matchVars, walkVars, treeVars, sepVars>>

NextOverlap ==
    \E c \in CallIds :
        \/ IngestCallOverlapping(c)
        \/ FullStages(c)

SpecOverlap == InitOverlap /\ [][NextOverlap]_vars

(***************************************************************************)
(* One file followed from the host's directory tree to the result: the     *)
(* relative path find_files forms, the path the matcher sees, the key      *)
(* _collect_files stores and the parts _build_tree_structure splits it     *)
(* into, on a host whose separator is "/" or "\\".                         *)
(***************************************************************************)
\* the longest way from the root to a file, in names
MaxSepSegs == 3

\* the file and directory names on the hosts; a POSIX host allows a
\* backslash in a name
SepNames == {
    <<"s","r","c">>,
    <<"p","k","g">>,
    <<"a","\\","b">>,
    <<"m","a","i","n",".","p","y">> }

\* the separators of the hosts: os.sep
SepHosts == {"/", "\\"}

\* sep.join(parts)
RECURSIVE JoinWith(_, _)
JoinWith(parts, sep) ==
    IF Len(parts) = 0 THEN <<>>
    ELSE IF Len(parts) = 1 THEN parts[1]
    ELSE parts[1] \o <<sep>> \o JoinWith(Tail(parts), sep)

\* s.split(sep) for a separator of one character
RECURSIVE SplitOnFrom(_, _, _)
SplitOnFrom(s, sep, start) ==
    LET later == {i \in start..Len(s) : s[i] = sep}
    IN  IF later = {}
        THEN <<SubSeq(s, start, Len(s))>>
        ELSE LET k == CHOOSE i \in later : \A j \in later : i <= j
             IN  <<SubSeq(s, start, k - 1)>> \o SplitOnFrom(s, sep, k + 1)

\* find_files, lines 116-117: str(file_path.relative_to(root_dir)), the names
\* joined by the host's separator
RelativePath(segs, sep) == JoinWith(segs, sep)

\* a mutant of TreeParts: the key is split on "/" on every host
TreeParts_ForwardSlash(file_path, sep) == SplitOnFrom(file_path, "/", 1)

\* _build_tree_structure, line 206: parts = file_path.split(os.sep)
TreeParts(file_path, sep) == SplitOnFrom(file_path, sep, 1)

\* a file of the repository on one of the hosts; no name holds the host's
\* separator, and none holds "/"
InitSep ==
    /\ MatchIdle
    /\ WalkIdle
    /\ IngestIdle
    /\ TreeIdle
    /\ s_sep \in SepHosts
    /\ \E n \in 1..MaxSepSegs : s_segs \in [1..n -> SepNames]
    /\ \A i \in 1..Len(s_segs) : ~HasChar(s_segs[i], s_sep)
    /\ s_relative_path = <<>>
    /\ s_normalized_path = <<>>
    /\ s_key = <<>>
    /\ s_parts = <<>>
    /\ s_pc = "find"

\* find_files, lines 114-130: the relative path of the file, which
\* matches_any_pattern (line 41) matches after replacing backslashes
SepFindFiles ==
    /\ s_pc = "find"
    /\ s_relative_path' = RelativePath(s_segs, s_sep)
    /\ s_normalized_path' = ReplaceBackslash(s_relative_path')
    /\ s_pc' = "collect"
    /\ UNCHANGED <<s_sep, s_segs, s_key, s_parts>>
    /\ UNCHANGED <<matchVars, walkVars, ingestVars, treeVars>>

\* _collect_files, line 132: files[relative_path] = content
SepCollectFiles ==
    /\ s_pc = "collect"
    /\ s_key' = s_relative_path
    /\ s_pc' = "tree"
    /\ UNCHANGED <<s_sep, s_segs, s_relative_path, s_normalized_path, s_parts>>
    /\ UNCHANGED <<matchVars, walkVars, ingestVars, treeVars>>

\* _build_tree_structure, lines 205-206: the key is split into its parts
SepBuildTree ==
    /\ s_pc = "tree"
    /\ s_parts' = TreeParts(s_key, s_sep)
    /\ s_pc' = "done"
    /\ UNCHANGED <<s_sep, s_segs, s_relative_path, s_normalized_path, s_key>>
    /\ UNCHANGED <<matchVars, walkVars, ingestVars, treeVars>>

NextSep ==
    \/ SepFindFiles
    \/ SepCollectFiles
    \/ SepBuildTree

SpecSep == InitSep /\ [][NextSep]_vars

(***************************************************************************)
(* A Config is constructed and add_exclude_pattern is called on it.        *)
(***************************************************************************)
\* the values of common_exclude_patterns given to Config(...)
ConstructorExcludes == {
    DefaultCommonExcludePatterns,
    {<<"b","u","i","l","d","/","*","*">>, <<".","g","i","t","/">>},
    {<<"o","u","t","\\","*","*">>, <<"*","*","/","g","e","n">>, <<"*",".","l","o","g">>} }

\* the patterns given to add_exclude_pattern
AddedPatterns == {
    <<"b","u","i","l","d","/","*","*">>,   \* build/**
    <<"o","u","t","\\","*","*">>,          \* out\**
    <<"d","i","s","t">>,                   \* dist
    <<".","c","a","c","h","e">>,           \* .cache
    <<"t","m","p","/">>,                   \* tmp/
    <<"*",".","b","a","k">> }              \* *.bak

\* Config.add_exclude_pattern(pattern), os.path.isdir(pattern) answering isdir
add_exclude_pattern(config, pattern, isdir) ==
    LET replaced == ReplaceBackslash(pattern)
        given == IF isdir /\ ~EndsWith(replaced, <<"/">>) THEN replaced \o <<"/">> ELSE replaced
        undotted == IF StartsWith(given, <<".">>) THEN {Tail(given)} ELSE {}
        wildcard == IF ~EndsWith(given, <<"/">>) /\ ~EndsWith(given, <<"*">>)
                    THEN IF isdir THEN {given \o <<"*","*","/","*">>} ELSE {given \o <<"*">>}
                    ELSE {}
    IN  [config EXCEPT !.common_exclude_patterns = @ \cup {given} \cup undotted \cup wildcard]

\* Config(common_exclude_patterns=...)
InitConfig ==
    /\ SepIdle
    /\ MatchIdle
    /\ WalkIdle
    /\ TreeIdle
    /\ i_repo = {}
    /\ i_root = "directory"
    /\ \E common_exclude_patterns \in ConstructorExcludes :
           i_config = Config(DefaultCommonIncludePatterns, common_exclude_patterns, None)
    /\ i_handlers = <<>>
    /\ i_owner = <<>>
    /\ i_faults = {}
    /\ i_clock = 0
    /\ i_calls = [c \in CallIds |-> NoCall]

\* config.add_exclude_pattern(pattern); a pattern with a wildcard names no
\* directory
AddExcludePattern ==
    /\ \E pattern \in AddedPatterns : \E isdir \in BOOLEAN :
           /\ isdir => ~HasChar(pattern, "*")
           /\ i_config' = add_exclude_pattern(i_config, pattern, isdir)
    /\ UNCHANGED <<i_repo, i_root, i_handlers, i_owner, i_faults, i_clock, i_calls>>
    /\ UNCHANGED <<matchVars, walkVars, treeVars, sepVars>>

NextConfig == AddExcludePattern

SpecConfig == InitConfig /\ [][NextConfig]_vars

(***************************************************************************)
(* Full runs of different repositories on one ingestor, each call made     *)
(* when no other call is running.                                          *)
(***************************************************************************)
NextSequence ==
    \E c \in CallIds :
        \/ /\ \A d \in CallIds \ {c} : i_calls[d].pc = "idle" \/ Over(d)
           /\ IngestCallOverlapping(c)
        \/ FullStages(c)

SpecSequence == InitOverlap /\ [][NextSequence]_vars

(***************************************************************************)
(* Full runs under a configuration in which languages share extensions, so *)
(* that several handlers report the same file.                             *)
(***************************************************************************)
\* Config() after config.languages["csharp"].extensions.add(".py") and
\* config.languages["python"].extensions.add(".yml")
MergeConfig == [DefaultConfig EXCEPT
    !.languages[CSHARP].extensions = @ \cup {<<".", "p", "y">>},
    !.languages[PYTHON].extensions = @ \cup {<<".", "y", "m", "l">>}]

\* the repositories ingested under that configuration
MergeRepos == {
    {File_main_py, File_docker_compose_yml},
    {File_main_py, File_csharp_Program_cs},
    {File_docker_compose_yml, File_README_md} }

\* the values of languages_filter given under that configuration
MergeFilters == {
    <<>>,
    <<PYTHON, YAML>>,
    <<YAML, PYTHON>>,
    <<CSHARP, PYTHON>>,
    <<PYTHON, CSHARP>> }

InitMerge ==
    /\ SepIdle
    /\ MatchIdle
    /\ WalkIdle
    /\ TreeIdle
    /\ i_repo \in MergeRepos
    /\ i_root = "directory"
    /\ i_config = MergeConfig
    /\ i_handlers = <<>>
    /\ i_owner = <<>>
    /\ i_faults = {}
    /\ i_clock = 0
    /\ i_calls = [c \in CallIds |-> NoCall]

NextMerge ==
    \E c \in CallIds :
        \/ \E languages_filter \in MergeFilters : IngestCall(c, FALSE, languages_filter)
        \/ FullStages(c)

SpecMerge == InitMerge /\ [][NextMerge]_vars

(***************************************************************************)
(* Claims about the matcher (checked under SpecMatch).                     *)
(***************************************************************************)
\* a forward-slash-normalized relative path: no leading "./", no trailing "/"
IsNormalizedPath(p) ==
    /\ Len(p) > 0
    /\ ~HasChar(p, "\\")
    /\ ~StartsWith(p, <<".", "/">>)
    /\ ~EndsWith(p, <<"/">>)

\* the path has a segment equal to seg with at least one segment below it
HasSegmentWithBelow(p, seg) ==
    LET parts == Split(p)
    IN  \E i \in 1..(Len(parts) - 1) : parts[i] = seg

\* C4: for a normalized path P and the single pattern "foo/", the matcher
\* answers true if and only if P is "foo" or P starts with "foo/".
C4_DirPatternIff ==
    (m_pc = "done" /\ m_patterns = {FOO_SLASH} /\ IsNormalizedPath(m_path))
        => (m_result <=> (m_path = FOO \/ StartsWith(m_path, FOO_SLASH)))

\* C4 witness: a normalized path strictly below foo/ was matched
C4_Witness ==
    /\ m_pc = "done"
    /\ m_patterns = {FOO_SLASH}
    /\ IsNormalizedPath(m_path)
    /\ StartsWith(m_path, FOO_SLASH)
    /\ m_result

\* C5 (as claimed): the pattern ".venv/" matches every path that has a
\* segment ".venv" with at least one segment below it, nested ones included.
C5_DotVenvMatchesNested ==
    (m_pc = "done" /\ m_patterns = {DOTVENV_SLASH}
        /\ HasSegmentWithBelow(m_path, DOTVENV))
        => m_result

(***************************************************************************)
(* Claims about the walker (checked under SpecWalk).                       *)
(***************************************************************************)
\* the files of the result list
ResultFiles == {w_result[i] : i \in 1..Len(w_result)}

\* the directory of a file, as a sequence of segments
DirOf(f) == SubSeq(FileSegs(f), 1, Len(FileSegs(f)) - 1)

\* C1: a file whose relative path matches an exclude pattern is never in the
\* result of find_files, even when it also matches an include pattern.
C1_ExcludedNeverReturned ==
    \A f \in w_repo :
        matches_any_pattern(f.path, w_exclude) => f \notin ResultFiles

\* C1 witness: the walk is over; it reached the directory of a file that
\* matches both an include and an exclude pattern, and the file is left out
C1_Witness ==
    /\ w_pc = "done"
    /\ \E f \in w_repo :
        /\ DirOf(f) \in w_visited
        /\ matches_any_pattern(f.path, w_include)
        /\ matches_any_pattern(f.path, w_exclude)
        /\ ~is_binary_file(f)
        /\ f.size <= w_max_size_kb * 1024
        /\ f \notin ResultFiles

\* C2 (as claimed): with the exclude pattern "node_modules/" no file beneath
\* a directory named node_modules, at any depth, is in the result.
C2_NodeModulesExcludedAtAnyDepth ==
    w_exclude = {NODE_MODULES_SLASH}
        => \A f \in ResultFiles : ~HasSegmentWithBelow(f.path, NODE_MODULES)

\* the directory names the default globstar directory excludes are about
DefaultExcludedDirNames == {NODE_MODULES, BIN, OBJ, BUILD, DIST, VENV, DOTVENV}

\* C3 (as claimed): with Config().common_exclude_patterns no file that has a
\* directory segment named node_modules, bin, obj, build, dist, venv or
\* .venv is in the result.
C3_DefaultDirExcludesAtEveryDepth ==
    w_exclude = NormalizedExcludePatterns(DefaultCommonExcludePatterns)
        => \A f \in ResultFiles :
               \A seg \in DefaultExcludedDirNames : ~HasSegmentWithBelow(f.path, seg)

\* C6: a directory popped from dirnames because it matched an exclude
\* pattern is never visited, and no file beneath it is in the result.
C6_PrunedSubtreeNeverCollected ==
    \A d \in w_pruned :
        /\ d \notin w_visited
        /\ \A f \in ResultFiles : ~IsProperPrefix(d, FileSegs(f))

\* C6 witness: the walk is over, a directory was pruned, and a file beneath it
\* would have been selected had the walker reached it
C6_Witness ==
    /\ w_pc = "done"
    /\ \E d \in w_pruned : \E f \in w_repo :
        /\ IsProperPrefix(d, FileSegs(f))
        /\ FileSelected(f, w_include, w_exclude, w_max_size_kb)

(***************************************************************************)
(* Claims about ingestion (checked under Spec).                            *)
(***************************************************************************)
\* the calls of ingest that have returned
Returned == {c \in CallIds : i_calls[c].pc = "done"}

\* the calls of ingest that have run _collect_files
Collected == {c \in CallIds : i_calls[c].pc \in {"filter", "estimate", "dependencies", "metadata", "tree", "tokens", "functions", "return", "done"}}

\* the paths of the files map a call returned
ReturnedPaths(c) == DOMAIN i_calls[c].result.files

\* some part of the file does not decode as UTF-8
NotTextDecodable(f) == \E i \in 1..Len(f.bytes) : f.bytes[i] = "bad"

\* the leading chunk of the file, the one the probe decodes, does not decode
LeadingChunkUndecodable(f) == Len(f.bytes) >= 1 /\ f.bytes[1] = "bad"

\* the file is absent from what a call got from find_files, collected and returned
AbsentFrom(f, c) ==
    /\ f \notin Range(i_calls[c].file_paths)
    /\ f.path \notin DOMAIN i_calls[c].files
    /\ f.path \notin ReturnedPaths(c)

C8_FilteredSubsetOfUnfiltered ==
    \A c \in Returned : \A u \in Returned :
        (i_calls[c].languages_filter # <<>> /\ i_calls[u].languages_filter = <<>>)
            => ReturnedPaths(c) \subseteq ReturnedPaths(u)

\* a filtered call and an unfiltered one have returned, and the filter
\* removed some files and kept others
C8_Witness ==
    \E c \in Returned : \E u \in Returned :
        /\ i_calls[c].languages_filter # <<>>
        /\ i_calls[u].languages_filter = <<>>
        /\ ReturnedPaths(c) # {}
        /\ ReturnedPaths(c) # ReturnedPaths(u)

\* the profiles of the languages a call returned
ReturnedProfiles(c) == {ConfigLanguages[lang] : lang \in Range(i_calls[c].result.languages)}

\* the file belongs to one of the profiles: by its lower-cased extension or
\* as one of the config files
BelongsTo(file_path, profiles) ==
    \/ \E profile \in profiles : Lower(SplitExt(file_path)) \in profile.extensions
    \/ \E profile \in profiles : \E pattern \in profile.config_files :
            matches_any_pattern(file_path, {pattern})

\* README.md or LICENSE, by path or by base name
IsCoreFile(file_path) ==
    \/ file_path \in {README_MD, LICENSE}
    \/ Basename(file_path) \in {README_MD, LICENSE}

\* a .yml or .yaml file
IsYamlFile(file_path) ==
    \/ EndsWith(file_path, <<".", "y", "m", "l">>)
    \/ EndsWith(file_path, <<".", "y", "a", "m", "l">>)

\* the filter of the call names at least one detected language
FilterMatched(c) ==
    /\ i_calls[c].languages_filter # <<>>
    /\ i_calls[c].result.languages # <<>>

\* C9: when a language filter matches a detected language, every returned
\* file is README.md or LICENSE (path or base name), or has the lower-cased
\* extension of a filtered language, or matches a config_files pattern of
\* one; a python-only filter returns no .yml or .yaml file
C9_ReturnedFilesAreWhitelisted ==
    \A c \in Returned :
        FilterMatched(c) =>
            /\ \A file_path \in ReturnedPaths(c) :
                   IsCoreFile(file_path) \/ BelongsTo(file_path, ReturnedProfiles(c))
            /\ i_calls[c].result.languages = <<PYTHON>> =>
                   \A file_path \in ReturnedPaths(c) : ~IsYamlFile(file_path)

\* a python-only call returned from a repository with a YAML file that
\* _collect_files had collected: main.py is returned
C9_Witness ==
    \E c \in Returned :
        /\ i_calls[c].languages_filter = <<PYTHON>>
        /\ File_docker_compose_yml \in Range(i_calls[c].file_paths)
        /\ File_main_py.path \in ReturnedPaths(c)

\* C10: every file of the unfiltered result that has the extension of a
\* filtered and detected language, or is a config file of one, is in the
\* filtered result; with the filter python, yaml on the sample repository
\* the YAML files of the unfiltered result are returned, Program.cs and
\* App.jsx are not
C10_FilterKeepsRequestedLanguages ==
    \A c \in Returned : \A u \in Returned :
        (FilterMatched(c) /\ i_calls[u].languages_filter = <<>>) =>
            /\ \A file_path \in ReturnedPaths(u) :
                   BelongsTo(file_path, ReturnedProfiles(c)) => file_path \in ReturnedPaths(c)
            /\ (i_repo = SampleRepo /\ i_calls[c].languages_filter = <<PYTHON, YAML>>) =>
                   /\ \A file_path \in ReturnedPaths(u) :
                          IsYamlFile(file_path) => file_path \in ReturnedPaths(c)
                   /\ File_csharp_Program_cs.path \notin ReturnedPaths(c)
                   /\ File_react_App_jsx.path \notin ReturnedPaths(c)

\* the sample repository was ingested with the filter python, yaml and with
\* no filter: requirements.txt and docker-compose.yml are in both results,
\* Program.cs in the unfiltered one
C10_Witness ==
    \E c \in Returned : \E u \in Returned :
        /\ i_repo = SampleRepo
        /\ i_calls[c].languages_filter = <<PYTHON, YAML>>
        /\ i_calls[u].languages_filter = <<>>
        /\ File_requirements_txt.path \in ReturnedPaths(c) \cap ReturnedPaths(u)
        /\ File_docker_compose_yml.path \in ReturnedPaths(c) \cap ReturnedPaths(u)
        /\ File_csharp_Program_cs.path \in ReturnedPaths(u)

\* the filter list with every entry lower-cased
LowerFilter(languages_filter) == [i \in 1..Len(languages_filter) |-> Lower(languages_filter[i])]

\* C11: two calls whose filter lists are equal up to letter case return
\* identical languages lists and identical files maps
C11_FilterIsCaseInsensitive ==
    \A c \in Returned : \A u \in Returned :
        LowerFilter(i_calls[c].languages_filter) = LowerFilter(i_calls[u].languages_filter)
            => /\ i_calls[c].result.languages = i_calls[u].result.languages
               /\ i_calls[c].result.files = i_calls[u].result.files

\* the filters PYTHON and python were both used on a repository where
\* python is detected, and main.py was returned
C11_Witness ==
    \E c \in Returned : \E u \in Returned :
        /\ i_calls[c].languages_filter = <<PYTHON_UPPER>>
        /\ i_calls[u].languages_filter = <<PYTHON>>
        /\ i_calls[c].result.languages = <<PYTHON>>
        /\ File_main_py.path \in ReturnedPaths(c)

\* C17: a call with no language filter keeps every file find_files
\* returned, whether or not a language was detected
C17_NoFilterKeepsAllDiscovered ==
    \A c \in Collected :
        i_calls[c].languages_filter = <<>>
            => DOMAIN i_calls[c].files = {f.path : f \in Range(i_calls[c].file_paths)}


(***************************************************************************)
(* Claims about the tree builder (checked under SpecTree).                 *)
(***************************************************************************)
\* no path of the set is a proper segment-prefix of another
NoPrefixConflict(paths) ==
    \A p \in paths : \A q \in paths : ~IsProperPrefix(Split(p), Split(q))

\* the chains of keys that lead from a node to a None
RECURSIVE LeafChains(_)
LeafChains(node) ==
    UNION {IF node.children[k].leaf
           THEN {<<k>>}
           ELSE {<<k>> \o chain : chain \in LeafChains(node.children[k])} : k \in DOMAIN node.children}

\* every entry below the node is None or a dict with at least one entry
RECURSIVE WellFormed(_)
WellFormed(node) ==
    \A k \in DOMAIN node.children :
        \/ node.children[k].leaf /\ DOMAIN node.children[k].children = {}
        \/ /\ ~node.children[k].leaf
           /\ DOMAIN node.children[k].children # {}
           /\ WellFormed(node.children[k])

\* C20: for paths none of which is a proper segment-prefix of another, the
\* tree represents exactly the input: the root-to-leaf chains are the input
\* paths split into segments and every internal node is a mapping; a.py,
\* d/b.py, d/e/c.js give the top-level keys a.py and d, b.py and e below d,
\* c.js below d/e
C20_TreeRepresentsPaths ==
    NoPrefixConflict(t_input) =>
        /\ t_pc # "raised"
        /\ t_pc = "done" =>
               /\ LeafChains(t_tree) = {Split(p) : p \in t_input}
               /\ WellFormed(t_tree)
               /\ t_input = TreeExamplePaths =>
                      /\ DOMAIN t_tree.children = {<<"a", ".", "p", "y">>, <<"d">>}
                      /\ DOMAIN t_tree.children[<<"d">>].children = {<<"b", ".", "p", "y">>, <<"e">>}
                      /\ DOMAIN t_tree.children[<<"d">>].children[<<"e">>].children = {<<"c", ".", "j", "s">>}

\* the tree of the example has been built
C20_Witness ==
    /\ t_pc = "done"
    /\ t_input = TreeExamplePaths
    /\ Cardinality(LeafChains(t_tree)) = 3

(***************************************************************************)
(* Claims about the runs with and without token_estimate_only (checked     *)
(* under SpecRuns).                                                        *)
(***************************************************************************)
\* the calls made with token_estimate_only=True
EstimateOnly == {c \in CallIds : i_calls[c].token_estimate_only}

\* C12: a call made with token_estimate_only=True is never in the
\* dependency-analysis, metadata-extraction or function-analysis stage and
\* leaves their locals unset; its result has file_dependencies == {} and
\* function_info == {}, its files are the collected files that passed the
\* filter, its tree_structure represents exactly their paths, and its
\* token_info is the estimator's output for these files, with a total_tokens
\* entry
C12_EstimateOnlySkipsAnalysis ==
    \A c \in EstimateOnly :
        /\ i_calls[c].pc \notin {"dependencies", "metadata", "functions"}
        /\ DOMAIN i_calls[c].dependencies = {}
        /\ DOMAIN i_calls[c].metadata = {}
        /\ DOMAIN i_calls[c].function_info = {}
        /\ i_calls[c].pc = "done" =>
               /\ DOMAIN i_calls[c].result.file_dependencies = {}
               /\ DOMAIN i_calls[c].result.function_info = {}
               /\ i_calls[c].result.files = i_calls[c].files
               /\ DOMAIN i_calls[c].result.files \subseteq {f.path : f \in Range(i_calls[c].file_paths)}
               /\ LeafChains(i_calls[c].result.tree_structure) = {Split(p) : p \in DOMAIN i_calls[c].result.files}
               /\ DOMAIN i_calls[c].result.token_info = {"total_tokens"}
               /\ i_calls[c].result.token_info["total_tokens"] = TotalTokens(i_calls[c].result.files, DOMAIN i_calls[c].result.files)

\* an estimate-only call on the sample repository has returned files, a tree
\* and a positive token total
C12_Witness ==
    \E c \in EstimateOnly :
        /\ i_calls[c].pc = "done"
        /\ i_repo = SampleRepo
        /\ File_main_py.path \in DOMAIN i_calls[c].result.files
        /\ <<"c", "s", "h", "a", "r", "p">> \in DOMAIN i_calls[c].result.tree_structure.children
        /\ i_calls[c].result.token_info["total_tokens"] > 0

(***************************************************************************)
(* Claims about the results of full runs (checked under Spec).             *)
(***************************************************************************)
\* a RepositoryInfo with the timestamp taken out of its metadata
Unstamped(info) ==
    [info EXCEPT !.metadata = [k \in (DOMAIN info.metadata) \ {"timestamp"} |-> info.metadata[k]]]

\* the call was given a filter none of whose entries names a detected
\* language
UnmatchedFilter(c) ==
    /\ i_calls[c].languages_filter # <<>>
    /\ Range(LowerFilter(i_calls[c].languages_filter))
           \cap {Lower(lang) : lang \in Range(i_calls[c].all_languages)} = {}

\* C13: a call whose filter matches no detected language does not raise, and
\* something in the RepositoryInfo it returns, the timestamp aside, tells it
\* from what a call without a filter returns
C13_UnmatchedFilterIsSignalled ==
    \A c \in CallIds :
        UnmatchedFilter(c) =>
            /\ i_calls[c].pc # "raised"
            /\ \A u \in Returned :
                   (c \in Returned /\ i_calls[u].languages_filter = <<>>)
                       => Unstamped(i_calls[c].result) # Unstamped(i_calls[u].result)

(***************************************************************************)
(* Claims about runs that meet a failure (checked under SpecFailure).      *)
(***************************************************************************)
\* C14: when the root path names no directory, a call of ingest is over
\* before its detection stage has run, it ends by raising, and no
\* RepositoryInfo is returned
C14_BadRootAbortsBeforeDetection ==
    i_root # "directory" =>
        \A c \in CallIds :
            /\ i_calls[c].pc \in {"idle", "detect", "raised"}
            /\ i_calls[c].result = NoInfo

\* the file cannot be stat-ed or cannot be opened
Unreadable(f) == StatFails(f) \/ OpenFails(f)

\* C15: no call of ingest ends because find_files let an I/O error on one
\* file through; once a call has collected its files, no unreadable file is
\* among them and every file that would be collected from the readable part
\* of the repository is
C15_FileErrorsAreSkipped ==
    \A c \in CallIds :
        /\ i_calls[c].error # "find_files"
        /\ i_calls[c].pc = "filter" =>
               LET readable == {f \in i_calls[c].repo : ~Unreadable(f)}
                   file_paths == CollectFilePaths(readable, i_config, i_handlers, i_calls[c].all_languages)
               IN  /\ \A f \in i_calls[c].repo : Unreadable(f) => f.path \notin DOMAIN i_calls[c].files
                   /\ DOMAIN CollectFiles(file_paths, i_config, i_handlers, i_calls[c].all_languages)
                          \subseteq DOMAIN i_calls[c].files

\* C16: no call of ingest ends because a handler's analyze_dependencies or
\* extract_project_metadata raised; the RepositoryInfo a call returns holds,
\* for every active handler whose method does not raise, the entries of its
\* dependency map and its metadata
C16_HandlerFailureIsIsolated ==
    \A c \in CallIds :
        /\ i_calls[c].error \notin {"analyze_dependencies", "extract_project_metadata"}
        /\ i_calls[c].pc = "done" =>
               \A lang \in Range(ActiveLanguages(i_handlers, i_calls[c].languages)) :
                   /\ <<lang, "analyze_dependencies">> \notin i_faults =>
                          DOMAIN analyze_dependencies(i_handlers[lang], i_calls[c].files)
                              \subseteq DOMAIN i_calls[c].result.file_dependencies
                   /\ <<lang, "extract_project_metadata">> \notin i_faults =>
                          lang \in DOMAIN i_calls[c].result.metadata.language_metadata

(***************************************************************************)
(* Claims about repeated runs (checked under SpecRuns).                    *)
(***************************************************************************)
\* the calls that ran the full analysis and returned
ReturnedFull == {c \in Returned : ~i_calls[c].token_estimate_only}

\* C19: two full runs over the same directory with the same configuration
\* and the same arguments, the second on the same ingestor or on a new one,
\* return identical files, tree_structure, languages and file_dependencies
C19_FullRunsAreRepeatable ==
    \A c \in ReturnedFull : \A d \in ReturnedFull :
        i_calls[c].languages_filter = i_calls[d].languages_filter =>
            /\ i_calls[c].result.files = i_calls[d].result.files
            /\ i_calls[c].result.tree_structure = i_calls[d].result.tree_structure
            /\ i_calls[c].result.languages = i_calls[d].result.languages
            /\ i_calls[c].result.file_dependencies = i_calls[d].result.file_dependencies

\* two full runs over the sample repository with the same filter have
\* returned dependencies, and their timestamps differ
C19_Witness ==
    /\ ReturnedFull = CallIds
    /\ i_repo = SampleRepo
    /\ i_calls["first"].languages_filter = <<PYTHON, YAML>>
    /\ i_calls["second"].languages_filter = <<PYTHON, YAML>>
    /\ DOMAIN i_calls["second"].result.file_dependencies # {}
    /\ i_calls["first"].result.metadata.timestamp # i_calls["second"].result.metadata.timestamp

(***************************************************************************)
(* Claims about overlapping calls (checked under SpecOverlap).             *)
(***************************************************************************)
\* what ingest(repo, languages_filter=...) returns when it is the only call
\* ever made on a new RepositoryIngestor(config), the clock reading now
RunAlone(repo, config, languages_filter, now) ==
    LET handlers == HandlersAfterDetect(<<>>, repo, config)
        all_languages == DetectedLanguages(repo, config)
        languages == FilteredLanguages(all_languages, languages_filter)
        file_paths == CollectFilePaths(repo, config, handlers, all_languages)
        files == FilterFiles(CollectFiles(file_paths, config, handlers, all_languages), config, languages_filter, languages)
        dependencies == AnalyzeDependencies(handlers, files, languages)
        metadata == ExtractMetadata(handlers, files, languages, now)
        tree == build_tree_structure(FileKeys(file_paths, files))
    IN  [root_path |-> "repo_path",
         languages |-> languages,
         files |-> files,
         file_dependencies |-> dependencies,
         metadata |-> metadata,
         tree_structure |-> tree,
         token_info |-> AnalyzeTokens(files, metadata, tree, dependencies),
         function_info |-> AnalyzeFunctions(files)]

\* the handlers the call reads from self.handlers at its position
HandlersInUse(c) ==
    IF i_calls[c].pc = "collect" THEN Range(i_calls[c].all_languages) \cap DOMAIN i_handlers
    ELSE IF i_calls[c].pc \in {"dependencies", "metadata"} THEN Range(i_calls[c].languages) \cap DOMAIN i_handlers
    ELSE {}

\* every call that has returned returned, timestamp aside, what it returns
\* when run alone
ReturnsAsAlone ==
    \A c \in Returned :
        Unstamped(i_calls[c].result)
            = Unstamped(RunAlone(i_calls[c].repo, i_config, i_calls[c].languages_filter, 0))

\* C18 as stated: two overlapping calls share no mutable state, each call
\* reads only handler instances its own detection constructed, and each
\* returns what it returns when run alone
C18_CallsUseOwnHandlersOnly ==
    /\ \A c \in CallIds : \A lang \in HandlersInUse(c) : i_owner[lang] = c
    /\ ReturnsAsAlone

\* C18, amended: two overlapping calls on one ingestor share self.handlers,
\* and a call may read a handler instance the other call constructed; that
\* instance was constructed from the same configuration and holds nothing
\* else, so each call returns, timestamp aside, what it returns when run
\* alone, and a handler a call reads is always one for a language the call
\* detected itself
C18_OverlappingCallsReturnAsAlone ==
    /\ ReturnsAsAlone
    /\ \A c \in CallIds : \A lang \in HandlersInUse(c) :
           /\ lang \in Range(i_calls[c].all_languages)
           /\ i_handlers[lang] = NewHandler(lang, i_config)

\* the first call has returned python results for one repository; its
\* metadata stage ran after that of the second call, which is still running
\* on another repository and whose detection replaced the python handler
\* after the first call's own detection
C18_Witness ==
    /\ "first" \in Returned
    /\ i_calls["second"].pc = "tree"
    /\ i_calls["first"].repo # i_calls["second"].repo
    /\ PYTHON \in Range(i_calls["first"].result.languages)
    /\ i_calls["first"].result.metadata.timestamp = 2
    /\ i_calls["second"].metadata.timestamp = 1
    /\ PYTHON \in DOMAIN i_owner
    /\ i_owner[PYTHON] = "second"

(***************************************************************************)
(* Claims about the depth limit (checked under SpecWalk).                  *)
(***************************************************************************)
\* C22: with max_depth set to d, every path find_files returns has at most d
\* directory segments, and every file with at most d directory segments that
\* find_files returns without a limit is returned with the limit too; with
\* d = 0 only files directly in the root are returned
C22_DepthLimitIsExact ==
    (w_pc = "done" /\ w_max_depth # None) =>
        /\ \A f \in Range(w_result) : Len(DirOf(f)) <= w_max_depth
        /\ \A f \in Range(find_files(w_repo, w_include, w_exclude, w_max_size_kb, None)) :
               Len(DirOf(f)) <= w_max_depth => f \in Range(w_result)
        /\ w_max_depth = 0 => \A f \in Range(w_result) : DirOf(f) = <<>>

\* with the limit 1, bin/x.py was returned and foo/.venv/x.py, which no
\* exclude pattern matches, was not
C22_Witness ==
    /\ w_pc = "done"
    /\ w_max_depth = 1
    /\ w_exclude = {NODE_MODULES_SLASH}
    /\ File_foo_venv_x_py \in w_repo
    /\ File_bin_x_py \in Range(w_result)
    /\ File_foo_venv_x_py \notin Range(w_result)

(***************************************************************************)
(* Claims about the collection gate (checked under SpecRuns).              *)
(***************************************************************************)
\* some include pattern of a handler of the languages given to
\* _collect_files matches the path
HandlerPatternMatches(c, relative_path) ==
    \E lang \in Range(i_calls[c].all_languages) \cap DOMAIN i_handlers :
        \E pattern \in get_include_patterns(i_handlers[lang]) :
            matches_any_pattern(relative_path, {pattern})

\* the common include patterns without wildcard
WildcardFree(config) ==
    {p \in config.common_include_patterns : ~HasChar(p, "*") /\ ~HasChar(p, "?")}

\* C23: when the gate of _collect_files applies (some language was
\* detected), a file find_files returned that no such handler's include
\* pattern matches is in the files map if and only if its relative path
\* equals a common include pattern without '*' and '?'; such a file lies
\* directly in the root, and a file that only a wildcard common pattern
\* matches is not kept
C23_GateFallbackIsExactMatch ==
    \A c \in CallIds :
        (i_calls[c].pc = "filter" /\ i_calls[c].all_languages # <<>>) =>
            \A f \in Range(i_calls[c].file_paths) :
                ~HandlerPatternMatches(c, f.path) =>
                    /\ f.path \in DOMAIN i_calls[c].files <=> f.path \in WildcardFree(i_config)
                    /\ f.path \in DOMAIN i_calls[c].files => DirOf(f) = <<>>

\* python was detected; find_files returned README.md, which no python
\* pattern matches, and it was kept
C23_Witness ==
    \E c \in CallIds :
        /\ i_calls[c].pc = "filter"
        /\ PYTHON \in Range(i_calls[c].all_languages)
        /\ File_README_md \in Range(i_calls[c].file_paths)
        /\ ~HandlerPatternMatches(c, File_README_md.path)
        /\ File_README_md.path \in DOMAIN i_calls[c].files

(***************************************************************************)
(* Claims about the merge of the handlers' dependency maps (checked under  *)
(* SpecMerge).                                                             *)
(***************************************************************************)
\* the position of the language in the registry
RegistryIndex(lang) == CHOOSE i \in 1..Len(LANGUAGE_HANDLERS) : LANGUAGE_HANDLERS[i] = lang

\* the active handlers that report dependencies for the path
Reporters(c, path) ==
    {lang \in Range(i_calls[c].result.languages) \cap DOMAIN i_handlers :
        path \in DOMAIN analyze_dependencies(i_handlers[lang], i_calls[c].result.files)}

\* the one that comes last in the registry
LastReporter(c, path) ==
    CHOOSE lang \in Reporters(c, path) :
        \A other \in Reporters(c, path) : RegistryIndex(other) <= RegistryIndex(lang)

\* C24: in the result of a full run, the paths of file_dependencies are those
\* some active handler reports, and the entry of a path is exactly the list
\* of the handler that comes last in the registry among those that report
\* it; two runs whose filters hold the same languages in different orders
\* return the same file_dependencies
C24_LastHandlerInRegistryOrderWins ==
    \A c \in Returned :
        /\ \A path \in DOMAIN i_calls[c].result.files :
               path \in DOMAIN i_calls[c].result.file_dependencies <=> Reporters(c, path) # {}
        /\ \A path \in DOMAIN i_calls[c].result.file_dependencies :
               i_calls[c].result.file_dependencies[path]
                   = analyze_dependencies(i_handlers[LastReporter(c, path)], i_calls[c].result.files)[path]
        /\ \A d \in Returned :
               Range(LowerFilter(i_calls[c].languages_filter)) = Range(LowerFilter(i_calls[d].languages_filter))
                   => i_calls[c].result.file_dependencies = i_calls[d].result.file_dependencies

\* two runs with the filters [yaml, python] and [python, yaml] have returned;
\* the python and the yaml handler both report docker-compose.yml, and the
\* entry is the yaml handler's
C24_Witness ==
    /\ Returned = CallIds
    /\ i_calls["first"].languages_filter = <<YAML, PYTHON>>
    /\ i_calls["second"].languages_filter = <<PYTHON, YAML>>
    /\ Reporters("first", File_docker_compose_yml.path) = {PYTHON, YAML}
    /\ i_calls["first"].result.file_dependencies[File_docker_compose_yml.path]
           = Extracted(YAML, i_calls["first"].result.files[File_docker_compose_yml.path])

StageSuccessors(pc, token_estimate_only) ==
    CASE pc = "idle"         -> {"detect"}
      [] pc = "detect"       -> {"collect"}
      [] pc = "collect"      -> {"filter", "raised"}
      [] pc = "filter"       -> IF token_estimate_only THEN {"estimate"} ELSE {"dependencies"}
      [] pc = "estimate"     -> {"done"}
      [] pc = "dependencies" -> {"metadata", "raised"}
      [] pc = "metadata"     -> {"tree", "raised"}
      [] pc = "tree"         -> {"tokens"}
      [] pc = "tokens"       -> {"functions"}
      [] pc = "functions"    -> {"return"}
      [] pc = "return"       -> {"done"}
      [] OTHER               -> {}

\* the stages that run after the secondary filter
AfterFilterStages == {"estimate", "dependencies", "metadata", "tree", "tokens", "functions", "return"}

\* C26: within one call every step leads from a stage to the one that
\* follows it in the order detection, collection, secondary filter, then
\* either the estimate or dependencies, metadata, tree, tokens, functions;
\* no stage runs twice; the detected languages do not change once the walk
\* has started, and the stages after the secondary filter leave the file set
\* as the filter left it
C26_StagesRunInOrder ==
    [][\A c \in CallIds :
           /\ i_calls'[c].pc # i_calls[c].pc =>
                  i_calls'[c].pc \in StageSuccessors(i_calls[c].pc, i_calls[c].token_estimate_only)
           /\ i_calls[c].pc \notin {"idle", "detect"} =>
                  i_calls'[c].all_languages = i_calls[c].all_languages
           /\ i_calls[c].pc \in AfterFilterStages =>
                  /\ i_calls'[c].files = i_calls[c].files
                  /\ i_calls'[c].languages = i_calls[c].languages
           /\ i_calls[c].pc = "return" =>
                  /\ i_calls'[c].result.files = i_calls[c].files
                  /\ i_calls'[c].result.tree_structure
                         = build_tree_structure(FileKeys(i_calls[c].file_paths, i_calls[c].files))
                  /\ i_calls'[c].result.function_info = AnalyzeFunctions(i_calls[c].files)
                  /\ i_calls'[c].result.metadata.file_count = Cardinality(DOMAIN i_calls[c].files)
                  /\ DOMAIN i_calls'[c].result.file_dependencies \subseteq DOMAIN i_calls[c].files]_vars

\* a full run with a filter that removed web.config has gone through all its
\* stages and an estimate-only run has returned after it
C26_Witness ==
    /\ Returned = CallIds
    /\ ~i_calls["first"].token_estimate_only
    /\ i_calls["second"].token_estimate_only
    /\ i_calls["first"].languages_filter = <<PYTHON>>
    /\ File_main_py \in i_calls["first"].repo
    /\ File_web_config \in i_calls["first"].repo
    /\ DOMAIN i_calls["first"].result.files = {File_main_py.path}
    /\ DOMAIN i_calls["first"].result.file_dependencies = {File_main_py.path}

(***************************************************************************)
(* Claims about estimate-only runs against full runs (checked under        *)
(* SpecRuns).                                                              *)
(***************************************************************************)
\* C28: an estimate-only run and a full run of the same repository with the
\* same filter return the same languages, files and tree_structure, and in
\* both modes metadata["file_count"] is the number of entries of files
C28_EstimateOnlyMatchesFullRun ==
    /\ \A c \in Returned : \A d \in Returned :
           (/\ i_calls[c].token_estimate_only
            /\ ~i_calls[d].token_estimate_only
            /\ i_calls[c].repo = i_calls[d].repo
            /\ i_calls[c].languages_filter = i_calls[d].languages_filter) =>
               /\ i_calls[c].result.languages = i_calls[d].result.languages
               /\ i_calls[c].result.files = i_calls[d].result.files
               /\ i_calls[c].result.tree_structure = i_calls[d].result.tree_structure
    /\ \A c \in Returned :
           i_calls[c].result.metadata.file_count = Cardinality(DOMAIN i_calls[c].result.files)

\* with the filter [python] the estimate-only run and the full run both
\* returned main.py and README.md and neither returned docker-compose.yml,
\* which was collected
C28_Witness ==
    /\ Returned = CallIds
    /\ i_calls["first"].token_estimate_only
    /\ ~i_calls["second"].token_estimate_only
    /\ i_calls["first"].languages_filter = <<PYTHON>>
    /\ i_calls["second"].languages_filter = <<PYTHON>>
    /\ File_docker_compose_yml \in Range(i_calls["first"].file_paths)
    /\ DOMAIN i_calls["first"].result.files = {File_main_py.path, File_README_md.path}
    /\ i_calls["first"].result.metadata.file_count = 2

LeftoverHandlers(c) == DOMAIN i_handlers \ Range(i_calls[c].all_languages)

\* the handlers of the languages the call detected
DetectedHandlers(c) ==
    [lang \in Range(i_calls[c].all_languages) \cap DOMAIN i_handlers |-> i_handlers[lang]]

\* C30: self.handlers keeps the handler of every language any call has
\* detected, and a call made after another returns nothing that comes from a
\* handler of a language it did not detect: its languages and language
\* metadata name detected languages only, every file it returns passes the
\* gate with the detected languages' handlers alone, every dependency entry
\* is reported by a detected language's handler, and the result is, timestamp
\* aside, the result of the same call on a new ingestor
C30_LeftoverHandlersAreNotConsulted ==
    /\ \A c \in CallIds :
           i_calls[c].pc \notin {"idle", "detect"} => Range(i_calls[c].all_languages) \subseteq DOMAIN i_handlers
    /\ \A c \in Returned :
           /\ Range(i_calls[c].result.languages) \cap LeftoverHandlers(c) = {}
           /\ DOMAIN i_calls[c].result.metadata.language_metadata \cap LeftoverHandlers(c) = {}
           /\ \A path \in DOMAIN i_calls[c].result.files :
                  ShouldInclude(path, i_config, DetectedHandlers(c), i_calls[c].all_languages)
           /\ \A path \in DOMAIN i_calls[c].result.file_dependencies :
                  \E lang \in DOMAIN DetectedHandlers(c) :
                      path \in DOMAIN analyze_dependencies(i_handlers[lang], i_calls[c].result.files)
           /\ Unstamped(i_calls[c].result)
                  = Unstamped(RunAlone(i_calls[c].repo, i_config, i_calls[c].languages_filter, 0))

\* the first call detected csharp and left its handler in self.handlers; the
\* second call, on a repository with main.py and web.config, did not detect
\* csharp and returned main.py alone, with metadata for python only
C30_Witness ==
    /\ Returned = CallIds
    /\ i_calls["first"].result.metadata.timestamp < i_calls["second"].result.metadata.timestamp
    /\ CSHARP \in Range(i_calls["first"].all_languages)
    /\ i_calls["second"].repo = {File_main_py, File_web_config}
    /\ CSHARP \in LeftoverHandlers("second")
    /\ i_owner[CSHARP] = "first"
    /\ DOMAIN i_calls["second"].result.files = {File_main_py.path}
    /\ DOMAIN i_calls["second"].result.metadata.language_metadata = {PYTHON}

(***************************************************************************)
(* Claims about the shape of the exclude patterns (checked under           *)
(* SpecConfig).                                                            *)
(***************************************************************************)
\* "/**"
SLASH_GLOBSTAR == <<"/", "*", "*">>

\* C25: after the construction of a Config and any calls of
\* add_exclude_pattern on it, no common exclude pattern ends in "/**"
C25_NoExcludePatternEndsInGlobstar ==
    \A pattern \in i_config.common_exclude_patterns : ~EndsWith(pattern, SLASH_GLOBSTAR)

(***************************************************************************)
(* Claims about the form of paths on hosts with different separators       *)
(* (checked under SpecSep).                                                *)
(***************************************************************************)
\* C21 as stated: the path that is matched, the key stored in files and so
\* the parts the tree is built from are in forward-slash form on every host
C21_PathsAndKeysAreForwardSlash ==
    /\ s_pc \in {"collect", "tree", "done"} => ~HasChar(s_normalized_path, "\\")
    /\ s_pc \in {"tree", "done"} => ~HasChar(s_key, "\\")
    /\ s_pc = "done" => s_parts = Split(s_key)

\* C21, amended: the path that is matched holds no backslash, and is the
\* forward-slash form of the file's path when no name holds a backslash; the
\* key stored in files is the path in the host's own form, joined by os.sep;
\* and the parts the tree is built from, split on os.sep, are the names on
\* the file's way from the root
C21_MatchedNormalizedStoredNative ==
    /\ s_pc \in {"collect", "tree", "done"} =>
           /\ ~HasChar(s_normalized_path, "\\")
           /\ (\A i \in 1..Len(s_segs) : ~HasChar(s_segs[i], "\\")) => s_normalized_path = Join(s_segs)
    /\ s_pc \in {"tree", "done"} =>
           /\ s_key = JoinWith(s_segs, s_sep)
           /\ Len(s_segs) > 1 => HasChar(s_key, s_sep)
    /\ s_pc = "done" => s_parts = s_segs

\* on a host whose separator is the backslash, src\pkg\main.py was matched as
\* src/pkg/main.py, stored under the key src\pkg\main.py and split into src,
\* pkg and main.py
C21_Witness ==
    /\ s_pc = "done"
    /\ s_sep = "\\"
    /\ s_normalized_path = <<"s","r","c","/","p","k","g","/","m","a","i","n",".","p","y">>
    /\ s_key = <<"s","r","c","\\","p","k","g","\\","m","a","i","n",".","p","y">>
    /\ s_parts = << <<"s","r","c">>, <<"p","k","g">>, <<"m","a","i","n",".","p","y">> >>

====
